---- MODULE Spec2Model ----
(***************************************************************************)
(* varTrack: GitOps configuration synchronisation.                         *)
(*                                                                         *)
(* A Python dict is modelled as a sequence of entries [k |-> key, v |->    *)
(* value] with pairwise distinct keys, in insertion order (the order the   *)
(* dict iterates in).  Keys are the integers 1..MaxKey, standing for key   *)
(* strings in ascending order.  A JSON value is a record: [int |-> n] for  *)
(* a scalar, [old |-> a, new |-> b] for the dict {'old': a, 'new': b}.     *)
(***************************************************************************)
EXTENDS Integers, Sequences, FiniteSets, TLC

MaxKey == 3
MaxVal == 2
MaxLen == 2

VARIABLES
    \* Sync Engine: one call of calculate_sync_rows
    file,        \* file['current'], file['previous'] (flattened), file['metadata']
    rule,        \* the rule object handed to calculate_sync_rows
    db_state,    \* what sink.fetch(file['metadata']) yields, as a flat map
    result,      \* outcome of the call: [status, rows]
    cmp,         \* what compare_states(file.current, file.previous) returned
    \* Rule Engine: one call of Rule.get_unique_key_and_env
    mrule,       \* the Rule
    file_path,   \* argument file_path
    branch,      \* argument branch (a ref)
    match,       \* what the call returned
    \* Sink adapter
    sink_impl,   \* "strategy": sinks/mongo.py with the file strategy; "bulk": sinks/mongo_sink.py
    sbuffer,     \* the sink's _buffer
    buffer_size, \* configured buffer_size (batch_size of the bulk sink)
    collection,  \* configured static collection, or NoneV (route by env)
    store,       \* GridFS: <<bucket, filename>> -> file
    docs,        \* the bulk sink's collection: _id -> document
    upsert_enable,
    last_call,   \* the sink method that ran last
    last_flush,  \* whether that call ran a flush, and how it ended
    \* one flush of a given batch against a given store
    batch,
    store_before,
    \* one flush taken GridFS call by GridFS call, beside a concurrent fetch
    fpc,           \* the flush's position
    pending,       \* the files it has still to rewrite
    existing_file, \* its local existing_file
    fetched,       \* what the last concurrent fetch returned
    \* Self-healing reconciler service
    clock,       \* datetime.utcnow(), in seconds
    schedules,   \* ReconciliationService._schedules
    loop,        \* _run_loop: its position, its local now and the keys left to visit
    runs,        \* history: per schedule its executions so far; the last operation
    \* Sync Worker: one event handed to get_file_lifecycle and to data_manager
    event,       \* the event's commit list: as pushed (oldest first), then as sorted in place
    role,        \* the rule the event is matched against
    content,     \* per path, what the platform returns for the file's content
    lifecycle,   \* what get_file_lifecycle returned
    worked,      \* what data_manager did: fetches, writes, status
    \* Self-healing manager: reconcile calls for one file
    git_file,        \* what source.get_file_from_commit returns for the file
    flattener,       \* the manager's flattener: the default Flattenizer or one passed in
    heal_meta,       \* what rule.get_unique_key_and_env returns for the file
    prune_protected, \* the keys the rule protects from pruning
    heal_sink,       \* the sink: its store, its buffer, its flush count, its write log
    report,          \* the last ReconciliationReport, with the call's arguments
    \* Webhook setup: create_webhooks calls on one repository, thread by thread
    hooks,            \* the repository's hooks, as repo.get_hooks() lists them
    callers,          \* per thread: its position, its local `existing`, its calls so far
    platform_rejects,  \* whether the platform refuses a second hook with the same URL
    \* Override resolution: one rule with overrides, resolved for one repository
    orule, \* the rule: its own fields (config) and its overrides
    repo_name, \* argument repo_name
    resolved, \* what Rule.resolve_rule_for_repo and Role.get_effective_config returned
    \* Sync-mode chooser: one AUTO decision
    auto_input, \* the content's size and newline count, the measured latency, is_file_strategy, the rule object
    chosen, \* what rule.resolve_sync_mode returned
    \* Reconciler threads: the service mutex and who touches the schedule map
    lk_holder, \* the thread inside with self._lock, or none
    lk_pc, \* each thread's position
    lk_schedules, \* _schedules: a dict from key to schedule, in insertion order
    lk_managers, \* keys of _managers
    lk_keys, \* the loop's snapshot of keys
    lk_last, \* the last access of the map: kind, thread, lock holder at that moment
    lk_clock, \* datetime.utcnow() as the threads read it, in seconds
    \* Webhook endpoint: one request and its response
    wh_request, \* the configured secret, the raw body and the signature header
    wh_response, \* the status returned and whether processing went on
    \* Flatten: one tree and its flat map
    fl_tree, \* the tree handed to flatten_dfs
    fl_flat, \* the flat key/value map returned
    \* GitSource.read: the worker pool and the results
    gs_input, \* platform kind, files_to_process, before_sha
    gs_tasks, \* future_tasks: per file the state of future_curr and future_prev
    gs_local, \* the loop's locals future_curr and future_prev of the item in hand
    gs_results, \* results collected so far
    gs_pc \* position of the calling thread

syncVars == <<file, rule, db_state, result, cmp>>

ruleVars == <<mrule, file_path, branch, match>>

sinkVars == <<sink_impl, sbuffer, buffer_size, collection, store, docs,
              upsert_enable, last_call, last_flush, batch, store_before,
              fpc, pending, existing_file, fetched>>

vars == <<file, rule, db_state, result, cmp, mrule, file_path, branch, match,
          sink_impl, sbuffer, buffer_size, collection, store, docs,
          upsert_enable, last_call, last_flush, batch, store_before,
          fpc, pending, existing_file, fetched,
          clock, schedules, loop, runs,
          event, role, content, lifecycle, worked,
          git_file, flattener, heal_meta, prune_protected, heal_sink, report,
          hooks, callers, platform_rejects,
          orule, repo_name, resolved,
          auto_input, chosen,
          lk_holder, lk_pc, lk_schedules, lk_managers, lk_keys, lk_last, lk_clock,
          wh_request, wh_response,
          fl_tree, fl_flat,
          gs_input, gs_tasks, gs_local, gs_results, gs_pc>>

reconVars == <<clock, schedules, loop, runs>>

lifeVars == <<event, role, content, lifecycle, worked>>

healVars == <<git_file, flattener, heal_meta, prune_protected, heal_sink, report>>

hookVars == <<hooks, callers, platform_rejects>>

overVars == <<orule, repo_name, resolved>>

autoVars == <<auto_input, chosen>>

lockVars == <<lk_holder, lk_pc, lk_schedules, lk_managers, lk_keys, lk_last, lk_clock>>

sigVars == <<wh_request, wh_response>>

flatVars == <<fl_tree, fl_flat>>

fetchVars == <<gs_input, gs_tasks, gs_local, gs_results, gs_pc>>

laterVars == <<reconVars, lifeVars, healVars, hookVars, overVars, autoVars, lockVars, sigVars, flatVars, fetchVars>>

IdleRecon ==
    /\ clock = "idle"
    /\ schedules = "idle"
    /\ loop = "idle"
    /\ runs = "idle"

IdleLife ==
    /\ event = "idle"
    /\ role = "idle"
    /\ content = "idle"
    /\ lifecycle = "idle"
    /\ worked = "idle"

IdleHeal ==
    /\ git_file = "idle"
    /\ flattener = "idle"
    /\ heal_meta = "idle"
    /\ prune_protected = "idle"
    /\ heal_sink = "idle"
    /\ report = "idle"

IdleHook ==
    /\ hooks = "idle"
    /\ callers = "idle"
    /\ platform_rejects = "idle"

IdleOver ==
    /\ orule = "idle"
    /\ repo_name = "idle"
    /\ resolved = "idle"

IdleAuto ==
    /\ auto_input = "idle"
    /\ chosen = "idle"

IdleLock ==
    /\ lk_holder = "idle"
    /\ lk_pc = "idle"
    /\ lk_schedules = "idle"
    /\ lk_managers = "idle"
    /\ lk_keys = "idle"
    /\ lk_last = "idle"
    /\ lk_clock = "idle"

IdleSig ==
    /\ wh_request = "idle"
    /\ wh_response = "idle"

IdleFlat ==
    /\ fl_tree = "idle"
    /\ fl_flat = "idle"

IdleFetch ==
    /\ gs_input = "idle"
    /\ gs_tasks = "idle"
    /\ gs_local = "idle"
    /\ gs_results = "idle"
    /\ gs_pc = "idle"

IdleLater ==
    /\ IdleRecon
    /\ IdleLife
    /\ IdleHeal
    /\ IdleHook
    /\ IdleOver
    /\ IdleAuto
    /\ IdleLock
    /\ IdleSig
    /\ IdleFlat
    /\ IdleFetch

(***************************************************************************)
(* Python dict operations                                                  *)
(***************************************************************************)
JInt(n) == [int |-> n]

Keys == 1..MaxKey

Values == {JInt(n) : n \in 1..MaxVal}

Entries == [k : Keys, v : Values]

IsDict(d) ==
    \A i, j \in DOMAIN d : d[i].k = d[j].k => i = j

FlatMaps ==
    UNION {{d \in [1..n -> Entries] : IsDict(d)} : n \in 0..MaxLen}

DictKeys(d) == {d[i].k : i \in DOMAIN d}

DictGet(d, key) == d[CHOOSE i \in DOMAIN d : d[i].k = key].v

DictSet(d, key, val) ==
    IF key \in DictKeys(d)
    THEN [i \in DOMAIN d |-> IF d[i].k = key THEN [k |-> key, v |-> val] ELSE d[i]]
    ELSE Append(d, [k |-> key, v |-> val])

DictPop(d, key) == SelectSeq(d, LAMBDA e : e.k # key)

(***************************************************************************)
(* State Comparator                                                        *)
(***************************************************************************)
compare_states(current_data, old_data) ==
    LET isDeleted(e) == e.k \notin DictKeys(current_data)
        isAdded(e) == e.k \notin DictKeys(old_data)
        isChanged(e) == e.k \in DictKeys(old_data) /\ e.v # DictGet(old_data, e.k)
        chg == SelectSeq(current_data, isChanged)
    IN  [deleted |-> SelectSeq(old_data, isDeleted),
         added |-> SelectSeq(current_data, isAdded),
         changed |-> [i \in DOMAIN chg |->
                        [k |-> chg[i].k,
                         v |-> [old |-> DictGet(old_data, chg[i].k), new |-> chg[i].v]]]]

(***************************************************************************)
(* Sync Engine                                                             *)
(***************************************************************************)
SyncModes == {"GIT_UPSERT_ALL", "GIT_SMART_REPAIR", "LIVE_STATE", "AUTO"}

ResolvedModes == SyncModes \ {"AUTO"}

PipelineRow(key, value, kind, metadata) ==
    [key |-> key, value |-> value, kind |-> kind, metadata |-> metadata]

Raise(exc) == [status |-> exc, rows |-> <<>>]

\* DynamicStrategySelector.decide called with `nargs` arguments: it declares
\* three parameters (content, sink, is_file_strategy).  The mode the cost model
\* picks depends on the measured latency; r.decided carries it.
decide(r, content_empty, nargs) ==
    IF nargs # 3 THEN "TypeError"
    ELSE IF content_empty THEN "GIT_SMART_REPAIR"
    ELSE r.decided

\* rule.resolve_sync_mode called with `nargs` arguments besides self.
\* r.resolveParams is the number of parameters the rule object's method
\* declares: 2 for models.rule.Rule (sink, current_str), which hands decide
\* two arguments; 3 for a rule object written to the call site's signature.
resolve_sync_mode(r, content_empty, nargs) ==
    IF nargs # r.resolveParams THEN "TypeError"
    ELSE IF r.syncMode # "AUTO" THEN r.syncMode
    ELSE decide(r, content_empty, r.resolveParams)

RowsOf(kind, entries, metadata) ==
    [i \in DOMAIN entries |-> PipelineRow(entries[i].k, entries[i].v, kind, metadata)]

calculate_sync_rows(f, r, db) ==
    LET sync_mode == resolve_sync_mode(r, f.current = <<>>, 3)
    IN  IF sync_mode = "TypeError" THEN Raise("TypeError")
        ELSE IF r.variablesMap # <<>> THEN Raise("TypeError")
        ELSE
        LET curr_flat == f.current
            prev_flat == IF sync_mode = "LIVE_STATE" THEN db ELSE f.previous
            diff == compare_states(curr_flat, prev_flat)
            rows == RowsOf("INSERT", diff.added, f.metadata)
                    \o RowsOf("UPDATE", diff.changed, f.metadata)
                    \o RowsOf("DELETE", diff.deleted, f.metadata)
        IN  IF sync_mode = "GIT_UPSERT_ALL"
            THEN IF "unchanged" \notin DOMAIN diff THEN Raise("KeyError")
                 ELSE [status |-> "ok",
                       rows |-> rows \o RowsOf("UPDATE", diff.unchanged, f.metadata)]
            ELSE IF sync_mode = "GIT_SMART_REPAIR"
            THEN IF "unchanged" \notin DOMAIN diff THEN Raise("KeyError")
                 ELSE LET stale(e) == e.k \notin DictKeys(db) \/ DictGet(db, e.k) # e.v
                      IN  [status |-> "ok",
                           rows |-> rows \o RowsOf("UPDATE",
                                        SelectSeq(diff.unchanged, stale), f.metadata)]
            ELSE [status |-> "ok", rows |-> rows]

Metadata == [unique_key |-> "repoName-prod", env |-> "prod"]

Files == [current : FlatMaps, previous : FlatMaps, metadata : {Metadata}]

Rules ==
    {r \in [syncMode : SyncModes, decided : ResolvedModes,
            resolveParams : {2, 3}, variablesMap : {<<>>, <<[k |-> 1, v |-> JInt(1)]>>}] :
        r.syncMode # "AUTO" => r.decided = r.syncMode}

NoResult == [status |-> "none", rows |-> <<>>]

NoCmp == [status |-> "none"]

IdleRule ==
    /\ mrule = "idle"
    /\ file_path = "idle"
    /\ branch = "idle"
    /\ match = "idle"

IdleSink ==
    /\ sink_impl = "idle"
    /\ sbuffer = "idle"
    /\ buffer_size = "idle"
    /\ collection = "idle"
    /\ store = "idle"
    /\ docs = "idle"
    /\ upsert_enable = "idle"
    /\ last_call = "idle"
    /\ last_flush = "idle"
    /\ batch = "idle"
    /\ store_before = "idle"
    /\ fpc = "idle"
    /\ pending = "idle"
    /\ existing_file = "idle"
    /\ fetched = "idle"

InitSync ==
    /\ IdleRule
    /\ IdleSink
    /\ IdleLater
    /\ file \in Files
    /\ rule \in Rules
    /\ db_state \in FlatMaps
    /\ result = NoResult
    /\ cmp = NoCmp

CalculateSyncRows ==
    /\ result = NoResult
    /\ cmp = NoCmp
    /\ result' = calculate_sync_rows(file, rule, db_state)
    /\ UNCHANGED <<file, rule, db_state, cmp>>
    /\ UNCHANGED ruleVars
    /\ UNCHANGED sinkVars
    /\ UNCHANGED laterVars

CompareStates ==
    /\ result = NoResult
    /\ cmp = NoCmp
    /\ cmp' = compare_states(file.current, file.previous)
    /\ UNCHANGED <<file, rule, db_state, result>>
    /\ UNCHANGED ruleVars
    /\ UNCHANGED sinkVars
    /\ UNCHANGED laterVars

NextSync == CalculateSyncRows \/ CompareStates

SpecSync == InitSync /\ [][NextSync]_vars

(***************************************************************************)
(* Claims about the State Comparator and the Sync Engine (SpecSync)        *)
(***************************************************************************)
\* The mode the rule resolves to: its explicit mode, or for AUTO the chooser's
\* pick (GIT_SMART_REPAIR for empty content).
ResolvedMode ==
    IF rule.syncMode # "AUTO" THEN rule.syncMode
    ELSE IF file.current = <<>> THEN "GIT_SMART_REPAIR" ELSE rule.decided

\* The map the engine diffs the current map against.
EffectivePrevious ==
    IF ResolvedMode = "LIVE_STATE" THEN db_state ELSE file.previous

RowsWith(key, kind) ==
    {i \in DOMAIN result.rows : result.rows[i].key = key /\ result.rows[i].kind = kind}

\* C1: with current = previous = m the engine returns an empty row list,
\* except under GIT_UPSERT_ALL, where every key of m appears in exactly one
\* row and that row is an UPDATE.  Stated for the calls that get past mode
\* resolution (the rule object accepts the call and has no variablesMap).
C1_SameStateRows ==
    (result # NoResult /\ result.status # "TypeError"
        /\ file.current = file.previous /\ file.current = db_state) =>
        /\ result.status = "ok"
        /\ IF ResolvedMode = "GIT_UPSERT_ALL"
           THEN \A key \in DictKeys(file.current) :
                    /\ Cardinality({i \in DOMAIN result.rows :
                                       result.rows[i].key = key}) = 1
                    /\ Cardinality(RowsWith(key, "UPDATE")) = 1
           ELSE result.rows = <<>>

\* C2: compare_states returns the four key sets added, changed, deleted and
\* unchanged; they are pairwise disjoint, their union is keys(current) \cup
\* keys(old), and each holds exactly the keys of its class.
C2_ComparePartition ==
    cmp # NoCmp =>
        /\ DOMAIN cmp = {"added", "changed", "deleted", "unchanged"}
        /\ LET cur == file.current
               old == file.previous
               both == DictKeys(cur) \cap DictKeys(old)
               A == DictKeys(cmp.added)
               C == DictKeys(cmp.changed)
               D == DictKeys(cmp.deleted)
               U == DictKeys(cmp.unchanged)
           IN  /\ A = DictKeys(cur) \ DictKeys(old)
               /\ D = DictKeys(old) \ DictKeys(cur)
               /\ C = {key \in both : DictGet(cur, key) # DictGet(old, key)}
               /\ U = {key \in both : DictGet(cur, key) = DictGet(old, key)}
               /\ A \cup C \cup D \cup U = DictKeys(cur) \cup DictKeys(old)

\* C3: a returned row list holds exactly one INSERT row per added key, one
\* UPDATE row per changed key and one DELETE row per deleted key, and each
\* INSERT and UPDATE row carries the key's current value itself.
C3_RowsCarryNewValue ==
    result.status = "ok" =>
        LET cur == file.current
            old == EffectivePrevious
        IN  /\ \A key \in DictKeys(cur) \ DictKeys(old) :
                    /\ Cardinality(RowsWith(key, "INSERT")) = 1
                    /\ \A i \in RowsWith(key, "INSERT") :
                            result.rows[i].value = DictGet(cur, key)
            /\ \A key \in DictKeys(cur) \cap DictKeys(old) :
                    DictGet(cur, key) # DictGet(old, key) =>
                        /\ Cardinality(RowsWith(key, "UPDATE")) = 1
                        /\ \A i \in RowsWith(key, "UPDATE") :
                                result.rows[i].value = DictGet(cur, key)
            /\ \A key \in DictKeys(old) \ DictKeys(cur) :
                    Cardinality(RowsWith(key, "DELETE")) = 1

KindRank(kind) ==
    CASE kind = "INSERT" -> 1
      [] kind = "UPDATE" -> 2
      [] kind = "DELETE" -> 3
      [] OTHER -> 4

\* C4: in a returned row list all INSERT rows come before all UPDATE rows,
\* which come before all DELETE rows, and within a kind the keys ascend.
C4_RowOrder ==
    result.status = "ok" =>
        \A i, j \in DOMAIN result.rows :
            i < j =>
                /\ KindRank(result.rows[i].kind) <= KindRank(result.rows[j].kind)
                /\ result.rows[i].kind = result.rows[j].kind =>
                        result.rows[i].key < result.rows[j].key

(***************************************************************************)
(* Rule Engine                                                             *)
(*                                                                         *)
(* A string is a sequence of tokens, so that str.replace and str.format    *)
(* act on its content.  A format template is a sequence of parts, each a   *)
(* literal [lit |-> string] or a replacement field [field |-> name].       *)
(***************************************************************************)
NoneV == [none |-> TRUE]

Some(v) == [some |-> v]

Str(token) == <<token>>

RefsHeads == "refs/heads/"

\* str.replace('refs/heads/', ''): every occurrence is removed
StripRefsHeads(s) == SelectSeq(s, LAMBDA t : t # RefsHeads)

Lit(token) == [lit |-> Str(token)]

Field(name) == [field |-> name]

FieldsOf(template) ==
    {template[i].field : i \in {j \in DOMAIN template : "field" \in DOMAIN template[j]}}

RECURSIVE FormatParts(_, _)
FormatParts(template, variables) ==
    IF template = <<>> THEN <<>>
    ELSE (IF "lit" \in DOMAIN Head(template)
          THEN Head(template).lit
          ELSE variables[Head(template).field])
         \o FormatParts(Tail(template), variables)

\* template.format(**variables): KeyError when a field has no variable
StrFormat(template, variables) ==
    IF FieldsOf(template) \subseteq DOMAIN variables
    THEN Some(FormatParts(template, variables))
    ELSE [raised |-> "KeyError"]

\* dict.update
Update(f, g) ==
    [x \in DOMAIN f \cup DOMAIN g |-> IF x \in DOMAIN g THEN g[x] ELSE f[x]]

EmptyDict == [x \in {} |-> <<>>]

\* re.match(pattern, file_path).groupdict() for the patterns of the model;
\* NoneV when the pattern does not match at the start of the path.
EnvDirPattern == "envs/(?P<env>[^/]+)/.*"

ProdDirPattern == "envs/prod/.*"

RegionDirPattern == "envs/(?P<region>[^/]+)/.*"

PathReMatch(pattern, path) ==
    CASE pattern = EnvDirPattern ->
            IF path = "envs/prod/app.json" THEN Some([env |-> Str("prod")])
            ELSE IF path = "envs/dev/app.json" THEN Some([env |-> Str("dev")])
            ELSE NoneV
      [] pattern = ProdDirPattern ->
            IF path = "envs/prod/app.json" THEN Some(EmptyDict) ELSE NoneV
      [] pattern = RegionDirPattern ->
            IF path = "envs/prod/app.json" THEN Some([region |-> Str("prod")])
            ELSE IF path = "envs/dev/app.json" THEN Some([region |-> Str("dev")])
            ELSE NoneV
      [] OTHER -> NoneV

GroupIndex(pattern) ==
    IF pattern = EnvDirPattern THEN {"env"}
    ELSE IF pattern = RegionDirPattern THEN {"region"}
    ELSE {}

\* re.match(pattern, branch) for a pattern that is one literal token: the
\* branch has to start with it.
BranchReMatch(pattern, b) == b # <<>> /\ Head(b) = pattern

Truthy(opt) == opt # NoneV /\ opt.some # <<>>

_build_base_variables(r, path, ref) ==
    LET clean_branch == StripRefsHeads(ref)
        variables == [branch |-> clean_branch, file_path |-> Str(path)]
    IN  IF r.variablesMap # EmptyDict THEN Update(variables, r.variablesMap)
        ELSE variables

_resolve_env_from_branch(r, b) ==
    IF r.envAsBranch THEN Some(b)
    ELSE LET hits == {i \in DOMAIN r.branchMap : BranchReMatch(r.branchMap[i].pattern, b)}
         IN  IF hits # {}
             THEN Some(r.branchMap[CHOOSE i \in hits : \A j \in hits : i <= j].env)
             ELSE NoneV

_interpret_map_value(map_value, variables, captured_groups) ==
    IF FieldsOf(map_value) # {}
    THEN LET formatted == StrFormat(map_value, variables)
         IN  IF "raised" \in DOMAIN formatted THEN NoneV ELSE formatted
    ELSE IF map_value # <<>> THEN Some(FormatParts(map_value, EmptyDict))
    ELSE IF "env" \in DOMAIN captured_groups THEN Some(captured_groups.env)
    ELSE NoneV

\* A loop that returns at the first entry whose pattern matches, whatever
\* env its value resolves to.
_resolve_env_from_path_first_match(r, path, variables) ==
    LET matching == {i \in DOMAIN r.filePathMap :
                        PathReMatch(r.filePathMap[i].pattern, path) # NoneV}
    IN  IF matching = {} THEN [env |-> NoneV, variables |-> variables]
        ELSE LET w == CHOOSE i \in matching : \A j \in matching : i <= j
                 m == PathReMatch(r.filePathMap[w].pattern, path)
                 env == _interpret_map_value(r.filePathMap[w].value,
                                             Update(variables, m.some), m.some)
             IN  IF Truthy(env)
                 THEN [env |-> env, variables |-> Update(variables, m.some)]
                 ELSE [env |-> NoneV, variables |-> variables]

\* The first entry, in declaration order, that matches and yields a truthy
\* env: [env, variables] with the captured groups committed, or env = NoneV.
_resolve_env_from_path(r, path, variables) ==
    LET envAt(i) ==
            LET m == PathReMatch(r.filePathMap[i].pattern, path)
            IN  IF m = NoneV THEN NoneV
                ELSE _interpret_map_value(r.filePathMap[i].value,
                                          Update(variables, m.some), m.some)
        winners == {i \in DOMAIN r.filePathMap : Truthy(envAt(i))}
    IN  IF winners = {} THEN [env |-> NoneV, variables |-> variables]
        ELSE LET w == CHOOSE i \in winners : \A j \in winners : i <= j
             IN  [env |-> envAt(w),
                  variables |-> Update(variables,
                                       PathReMatch(r.filePathMap[w].pattern, path).some)]

_format_unique_key(r, variables) ==
    LET formatted == StrFormat(r.uniqueKeyName, variables)
    IN  IF "raised" \in DOMAIN formatted THEN NoneV ELSE formatted

get_unique_key_and_env(r, path, ref) ==
    LET base == _build_base_variables(r, path, ref)
        byPath == IF r.filePathMap # <<>>
                  THEN _resolve_env_from_path(r, path, base)
                  ELSE [env |-> NoneV, variables |-> base]
        env == IF byPath.env # NoneV THEN byPath.env
               ELSE IF r.fileName # NoneV /\ Some(path) = r.fileName
               THEN _resolve_env_from_branch(r, StripRefsHeads(ref))
               ELSE NoneV
    IN  IF Truthy(env)
        THEN Some([unique_key |-> _format_unique_key(r,
                                     Update(byPath.variables, [env |-> env.some])),
                   env |-> env.some])
        ELSE NoneV

FilePaths == {"config.json", "other.json", "envs/prod/app.json", "envs/dev/app.json"}

BranchTokens == {"prod", "dev"}

MaxBranchLen == 2

BranchNames == UNION {[1..n -> BranchTokens \cup {RefsHeads}] : n \in 0..MaxBranchLen}

Refs == BranchNames \cup {Str(RefsHeads) \o b : b \in BranchNames}

DefaultUniqueKeyName == <<Field("repoName"), Lit("-"), Field("env")>>

UniqueKeyNames ==
    {DefaultUniqueKeyName,
     <<Field("env")>>,
     <<Field("branch"), Lit("-"), Field("env")>>,
     <<Field("file_path")>>}

FilePathMaps ==
    {<<>>,
     <<[pattern |-> EnvDirPattern, value |-> <<>>]>>,
     <<[pattern |-> ProdDirPattern, value |-> <<Lit("production")>>],
       [pattern |-> EnvDirPattern, value |-> <<Field("env")>>]>>}

BranchMaps ==
    {<<>>, <<[pattern |-> "prod", env |-> Str("production")]>>}

VariablesMaps == {EmptyDict, [repoName |-> Str("repo")]}

\* validate_target_method and validate_template_logic
ValidRule(r) ==
    /\ r.fileName # NoneV \/ r.filePathMap # <<>>
    /\ FieldsOf(r.uniqueKeyName) \subseteq
         ({"repo", "repoName", "repositoryName", "branch", "file_path"}
          \cup (IF r.envAsBranch \/ r.branchMap # <<>> \/ r.filePathMap # <<>>
                THEN {"env"} ELSE {})
          \cup UNION {GroupIndex(r.filePathMap[i].pattern) : i \in DOMAIN r.filePathMap})

MatchRules ==
    {r \in [fileName : {NoneV, Some("config.json")},
            envAsBranch : BOOLEAN,
            branchMap : BranchMaps,
            filePathMap : FilePathMaps,
            uniqueKeyName : UniqueKeyNames,
            variablesMap : VariablesMaps] : ValidRule(r)}

NotCalled == [called |-> FALSE]

IdleSync ==
    /\ file = "idle"
    /\ rule = "idle"
    /\ db_state = "idle"
    /\ result = "idle"
    /\ cmp = "idle"

InitRule ==
    /\ IdleSync
    /\ IdleSink
    /\ IdleLater
    /\ mrule \in MatchRules
    /\ file_path \in FilePaths
    /\ branch \in Refs
    /\ match = NotCalled

GetUniqueKeyAndEnv ==
    /\ match = NotCalled
    /\ match' = get_unique_key_and_env(mrule, file_path, branch)
    /\ UNCHANGED <<mrule, file_path, branch>>
    /\ UNCHANGED syncVars
    /\ UNCHANGED sinkVars
    /\ UNCHANGED laterVars

NextRule == GetUniqueKeyAndEnv

SpecRule == InitRule /\ [][NextRule]_vars

(***************************************************************************)
(* Claims about the Rule Engine (SpecRule)                                 *)
(***************************************************************************)
\* C5: for a rule with envAsBranch = true and fileName = F, the match on
\* (F, "refs/heads/" + B) returns env = B with a non-null unique_key, and the
\* match on a path other than F returns null.  Stated for rules without
\* filePathMap and for branch names B that are non-empty and do not contain
\* "refs/heads/".
C5_EnvAsBranchMatch ==
    (/\ match # NotCalled
     /\ mrule.envAsBranch
     /\ mrule.fileName # NoneV
     /\ mrule.filePathMap = <<>>
     /\ Len(branch) >= 2
     /\ Head(branch) = RefsHeads
     /\ \A i \in DOMAIN Tail(branch) : Tail(branch)[i] # RefsHeads) =>
        IF Some(file_path) = mrule.fileName
        THEN /\ match # NoneV
             /\ match.some.env = Tail(branch)
             /\ match.some.unique_key # NoneV
        ELSE match = NoneV

(***************************************************************************)
(* Sink adapter, file strategy (GridFS)                                    *)
(*                                                                         *)
(* A row's metadata is [unique_key, env]; "" stands for a missing, None or *)
(* empty entry (all falsy).  The GridFS store maps <<bucket, filename>> to *)
(* NoFile or to the stored file [data, metadata], data being the decoded   *)
(* JSON object (json.dumps / json.loads keep a dict of string keys and     *)
(* JSON values, and its order, as it is).  A row key is a string, given as *)
(* the sequence of its pieces; "__DELETE__" is a piece of its own.  db and *)
(* collection are pymongo handles, or the configured names (str) where the *)
(* caller passes those.                                                    *)
(***************************************************************************)
Last(s) == s[Len(s)]

Front(s) == SubSeq(s, 1, Len(s) - 1)

RECURSIVE Dedup(_)
Dedup(s) ==
    IF s = <<>> THEN <<>>
    ELSE LET d == Dedup(Front(s))
         IN  IF \E i \in DOMAIN d : d[i] = Last(s) THEN d ELSE Append(d, Last(s))

NoFile == [nofile |-> TRUE]

\* a pymongo Database or Collection of that name
Handle(name) == [handle |-> name]

\* a configured name, a str
ConfiguredName(name) == [str |-> name]

IsStr(h) == "str" \in DOMAIN h

Db == Handle("mydb")

DeleteMarker == "__DELETE__"

\* Key of an entry of files_to_update[filename]: the row key itself (line
\* 93), or f"__DELETE__{row.key}" (line 89)
UpdKey(key, isDelete) == IF isDelete THEN <<DeleteMarker>> \o key ELSE key

\* line 115: key.startswith("__DELETE__")
StartsWithMarker(key) == key # <<>> /\ Head(key) = DeleteMarker

\* line 117: key.replace("__DELETE__", ""), every occurrence is removed
StripMarker(key) == SelectSeq(key, LAMBDA piece : piece # DeleteMarker)

\* lines 52-61: rows per target bucket, buckets in order of first use
BucketOf(row, coll) ==
    IF coll # NoneV THEN coll.some.handle
    ELSE IF row.metadata.env # "" THEN row.metadata.env ELSE "fs"

GroupedByCollection(buffer, coll) ==
    IF coll # NoneV THEN <<[k |-> coll.some.handle, v |-> buffer]>>
    ELSE LET names == Dedup([i \in DOMAIN buffer |-> BucketOf(buffer[i], coll)])
         IN  [i \in DOMAIN names |->
                [k |-> names[i],
                 v |-> SelectSeq(buffer, LAMBDA r : BucketOf(r, coll) = names[i])]]

\* lines 71-93: files_to_update for the rows of one bucket
RECURSIVE FilesToUpdate(_)
FilesToUpdate(rows) ==
    IF rows = <<>> THEN <<>>
    ELSE LET ftu == FilesToUpdate(Front(rows))
             row == Last(rows)
             filename == row.metadata.unique_key
             updates == IF filename \in DictKeys(ftu) THEN DictGet(ftu, filename) ELSE <<>>
         IN  IF filename = "" THEN ftu
             ELSE IF row.kind = "DELETE"
             THEN IF UpdKey(row.key, FALSE) \in DictKeys(updates)
                  THEN DictSet(ftu, filename, DictPop(updates, UpdKey(row.key, FALSE)))
                  ELSE DictSet(ftu, filename,
                               DictSet(updates, UpdKey(row.key, TRUE), NoneV))
             ELSE IF row.kind \in {"INSERT", "UPDATE", "UNCHANGED"}
             THEN DictSet(ftu, filename,
                          DictSet(updates, UpdKey(row.key, FALSE), row.value))
             ELSE ftu

\* lines 78-79: the metadata of the first row of each filename
MetadataOf(rows, filename) ==
    rows[CHOOSE i \in DOMAIN rows :
            /\ rows[i].metadata.unique_key = filename
            /\ \A j \in DOMAIN rows : rows[j].metadata.unique_key = filename => i <= j].metadata

\* lines 112-121: merged_data
RECURSIVE MergeUpdates(_, _)
MergeUpdates(existing_data, updates) ==
    IF updates = <<>> THEN existing_data
    ELSE LET merged == MergeUpdates(existing_data, Front(updates))
             u == Last(updates)
         IN  IF StartsWithMarker(u.k) THEN DictPop(merged, StripMarker(u.k))
             ELSE DictSet(merged, u.k, u.v)

\* The files a flush rewrites, in processing order.
FlushJobs(buffer, coll) ==
    LET groups == GroupedByCollection(buffer, coll)
        jobsOf(g) ==
            LET ftu == FilesToUpdate(g.v)
            IN  [i \in DOMAIN ftu |->
                    [bucket |-> g.k, filename |-> ftu[i].k, updates |-> ftu[i].v,
                     metadata |-> MetadataOf(g.v, ftu[i].k)]]
        RECURSIVE concat(_)
        concat(n) == IF n = 0 THEN <<>> ELSE concat(n - 1) \o jobsOf(groups[n])
    IN  concat(Len(groups))

ExistingData(st, job) ==
    IF st[<<job.bucket, job.filename>>] = NoFile THEN <<>>
    ELSE st[<<job.bucket, job.filename>>].data

\* lines 96-137 for the jobs in turn.  okCalls is the number of GridFS calls
\* (find_one, delete, put) that succeed before one raises.
RECURSIVE ProcessJobs(_, _, _)
ProcessJobs(st, jobs, okCalls) ==
    IF jobs = <<>> THEN [store |-> st, failed |-> FALSE]
    ELSE LET job == Head(jobs)
             at == <<job.bucket, job.filename>>
             exists == st[at] # NoFile
             merged == MergeUpdates(ExistingData(st, job), job.updates)
             afterFind == okCalls - 1
             deleted == IF exists THEN [st EXCEPT ![at] = NoFile] ELSE st
             afterDelete == IF exists THEN afterFind - 1 ELSE afterFind
             put == IF merged # <<>>
                    THEN [deleted EXCEPT ![at] = [data |-> merged, metadata |-> job.metadata]]
                    ELSE deleted
             afterPut == IF merged # <<>> THEN afterDelete - 1 ELSE afterDelete
         IN  IF afterFind < 0 THEN [store |-> st, failed |-> TRUE]
             ELSE IF afterDelete < 0 THEN [store |-> st, failed |-> TRUE]
             ELSE IF afterPut < 0 THEN [store |-> deleted, failed |-> TRUE]
             ELSE ProcessJobs(put, Tail(jobs), afterPut)

\* lines 54-65 before the first GridFS call: collection.name of a str is an
\* AttributeError, gridfs.GridFS of a str database a TypeError
HandlesFail(buffer, db, coll) ==
    IF coll # NoneV /\ IsStr(coll.some) THEN TRUE
    ELSE IsStr(db) /\ GroupedByCollection(buffer, coll) # <<>>

\* A flush that clears the buffer only when every call succeeded.
_flush_clear_on_success(buffer, db, st, coll, okCalls) ==
    IF HandlesFail(buffer, db, coll)
    THEN [buffer |-> buffer, store |-> st, flush |-> "failed"]
    ELSE LET done == ProcessJobs(st, FlushJobs(buffer, coll), okCalls)
         IN  [buffer |-> IF done.failed THEN buffer ELSE <<>>, store |-> done.store,
              flush |-> IF done.failed THEN "failed" ELSE "ok"]

\* MongoFileStrategy._flush: what it leaves in the buffer and the store
_flush(buffer, db, st, coll, okCalls) ==
    IF HandlesFail(buffer, db, coll)
    THEN [buffer |-> <<>>, store |-> st, flush |-> "failed"]
    ELSE LET done == ProcessJobs(st, FlushJobs(buffer, coll), okCalls)
         IN  [buffer |-> <<>>, store |-> done.store,
              flush |-> IF done.failed THEN "failed" ELSE "ok"]

\* A write that flushes only once the buffer exceeds buffer_size.
FileStrategy_write_above(row, buffer, db, st, coll, bsize, okCalls) ==
    LET buffered == IF row # NoneV THEN Append(buffer, row.some) ELSE buffer
    IN  IF (Len(buffered) > bsize \/ bsize = 0) /\ Len(buffered) > 0
        THEN _flush(buffered, db, st, coll, okCalls)
        ELSE [buffer |-> buffered, store |-> st, flush |-> "none"]

\* MongoFileStrategy.write; row = NoneV adds nothing
FileStrategy_write(row, buffer, db, st, coll, bsize, okCalls) ==
    LET buffered == IF row # NoneV THEN Append(buffer, row.some) ELSE buffer
    IN  IF (Len(buffered) >= bsize \/ bsize = 0) /\ Len(buffered) > 0
        THEN _flush(buffered, db, st, coll, okCalls)
        ELSE [buffer |-> buffered, store |-> st, flush |-> "none"]

\* lines 174-181 and 233-240: the bucket of fetch and of delete
BucketOfMetadata(metadata, coll) ==
    IF coll # NoneV THEN coll.some.handle
    ELSE IF metadata.env # "" THEN metadata.env ELSE "fs"

\* MongoFileStrategy.fetch; every exception is answered with {}
fetch(metadata, db, st, coll) ==
    IF metadata.unique_key = "" THEN <<>>
    ELSE IF coll # NoneV /\ IsStr(coll.some) THEN <<>>
    ELSE IF IsStr(db) THEN <<>>
    ELSE LET at == <<BucketOfMetadata(metadata, coll), metadata.unique_key>>
         IN  IF st[at] = NoFile THEN <<>> ELSE st[at].data

\* MongoFileStrategy.delete: the store it leaves and the exception it raises
\* again (line 256); okCalls is the number of GridFS calls (find_one,
\* delete) that succeed before one raises
delete(metadata, db, st, coll, okCalls) ==
    IF metadata.unique_key = "" THEN [store |-> st, raised |-> ""]
    ELSE IF coll # NoneV /\ IsStr(coll.some)
    THEN [store |-> st, raised |-> "AttributeError"]
    ELSE IF IsStr(db) THEN [store |-> st, raised |-> "TypeError"]
    ELSE LET at == <<BucketOfMetadata(metadata, coll), metadata.unique_key>>
         IN  IF okCalls < 1 THEN [store |-> st, raised |-> "PyMongoError"]
             ELSE IF st[at] = NoFile THEN [store |-> st, raised |-> ""]
             ELSE IF okCalls < 2 THEN [store |-> st, raised |-> "PyMongoError"]
             ELSE [store |-> [st EXCEPT ![at] = NoFile], raised |-> ""]

(***************************************************************************)
(* sinks/mongo.py: MongoSink, the sink the file strategy is selected by    *)
(***************************************************************************)
\* the abstract methods of pipeline/sink.py
SinkAbstractMethods == {"write", "flush", "fetch", "connect", "disconnect", "delete"}

\* the methods the two subclasses of Sink define
MethodsOf(class) ==
    IF class = "MongoSink" THEN {"__init__", "_select_strategy", "connect", "write", "flush"}
    ELSE {"write", "_flush", "fetch", "delete"}

\* class(...): a class that leaves an abstract method undefined cannot be
\* instantiated
Instantiate(class) ==
    IF SinkAbstractMethods \subseteq MethodsOf(class) THEN "constructed" ELSE "TypeError"

\* MongoSink(config), lines 15-24
MongoSink_init == Instantiate("MongoSink")

\* the handles MongoSink.write and MongoSink.flush pass: config.database and
\* config.collection, the configured names
ConfiguredCollection(config) ==
    IF config.collection = NoneV THEN NoneV
    ELSE Some(ConfiguredName(config.collection.some))

\* MongoConfig(database=..., collection=...): the fields of the model that
\* write and flush read; extra="forbid", and buffer_size is not a field
MongoConfig(database, coll) ==
    [database |-> database, collection |-> coll]

\* getattr(config, name): AttributeError for a name the object does not carry
HasAttr(config, name) == name \in DOMAIN config

\* MongoSink.write of an instance, were there one: the arguments of the
\* strategy call are evaluated first, self._config.buffer_size last (line 85)
MongoSink_write(row, buffer, st, config, okCalls) ==
    IF ~HasAttr(config, "buffer_size")
    THEN [buffer |-> buffer, store |-> st, flush |-> "none", raised |-> "AttributeError"]
    ELSE LET r == FileStrategy_write(Some(row), buffer, ConfiguredName(config.database),
                                     st, ConfiguredCollection(config),
                                     config.buffer_size, okCalls)
         IN  [buffer |-> r.buffer, store |-> r.store, flush |-> r.flush, raised |-> ""]

\* MongoSink.flush of an instance, were there one: nothing is read for an
\* empty buffer; otherwise self._config.buffer_size (line 99) as in write
MongoSink_flush(buffer, st, config, okCalls) ==
    IF buffer = <<>>
    THEN [buffer |-> buffer, store |-> st, flush |-> "none", raised |-> ""]
    ELSE IF ~HasAttr(config, "buffer_size")
    THEN [buffer |-> buffer, store |-> st, flush |-> "none", raised |-> "AttributeError"]
    ELSE LET r == FileStrategy_write(NoneV, buffer, ConfiguredName(config.database),
                                     st, ConfiguredCollection(config),
                                     config.buffer_size, okCalls)
         IN  [buffer |-> r.buffer, store |-> r.store, flush |-> r.flush, raised |-> ""]

(***************************************************************************)
(* Sink adapter, bulk sink (sinks/mongo_sink.py)                           *)
(***************************************************************************)
NoDoc == [nodoc |-> TRUE]

BulkOp(row, upsert) ==
    IF row.kind = "DELETE" THEN Some([op |-> "DeleteOne", id |-> row.key])
    ELSE IF row.kind \in {"INSERT", "UPDATE"}
    THEN Some([op |-> IF upsert THEN "UpdateOne" ELSE "InsertOne", id |-> row.key,
               value |-> row.value, metadata |-> row.metadata])
    ELSE NoneV

\* One operation of a bulk write; an InsertOne of an existing _id is a write
\* error and leaves the document as it is.
ApplyOp(d, o) ==
    IF o.op = "DeleteOne" THEN [d EXCEPT ![o.id] = NoDoc]
    ELSE IF o.op = "InsertOne" /\ d[o.id] # NoDoc THEN d
    ELSE [d EXCEPT ![o.id] = [value |-> o.value, metadata |-> o.metadata]]

OpFails(d, o) == o.op = "InsertOne" /\ d[o.id] # NoDoc

Perms(n) == {p \in [1..n -> 1..n] : \A i, j \in 1..n : p[i] = p[j] => i = j}

\* collection.bulk_write(ops, ordered=False): the server applies the
\* operations in an order of its choosing (perm); sent of them reach it
\* before the connection fails (all of them when it does not).
RECURSIVE BulkWrite(_, _, _, _)
BulkWrite(d, ops, perm, sent) ==
    IF sent = 0 THEN [docs |-> d, errors |-> FALSE]
    ELSE LET before == BulkWrite(d, ops, perm, sent - 1)
             o == ops[perm[sent]]
         IN  [docs |-> ApplyOp(before.docs, o),
              errors |-> before.errors \/ OpFails(before.docs, o)]

BulkSink_flush(buffer, d, perm, sent) ==
    IF buffer = <<>> THEN [buffer |-> buffer, docs |-> d, flush |-> "none"]
    ELSE LET w == BulkWrite(d, buffer, perm, sent)
         IN  [buffer |-> <<>>, docs |-> w.docs,
              flush |-> IF w.errors \/ sent < Len(buffer) THEN "failed" ELSE "ok"]

BulkFlushes(row, buffer, bsize, upsert) ==
    BulkOp(row, upsert) # NoneV /\ Len(buffer) + 1 >= bsize

BulkSink_write(row, buffer, d, bsize, upsert, perm, sent) ==
    LET op == BulkOp(row, upsert)
    IN  IF op = NoneV THEN [buffer |-> buffer, docs |-> d, flush |-> "none"]
        ELSE IF Len(Append(buffer, op.some)) >= bsize
        THEN BulkSink_flush(Append(buffer, op.some), d, perm, sent)
        ELSE [buffer |-> Append(buffer, op.some), docs |-> d, flush |-> "none"]

(***************************************************************************)
(* The sink as a state machine (SpecSink)                                  *)
(***************************************************************************)
MaxBufferSize == 3

\* An upper bound on the GridFS calls one flush of the buffer makes
GridFSCalls(buffer, coll) == 3 * Len(FlushJobs(buffer, coll))

StrategyFlushes(buffer, bsize) == (Len(buffer) >= bsize \/ bsize = 0) /\ Len(buffer) > 0

\* 'ab' and 'a__DELETE__b'
SinkKeys == {<<"a", "b">>, <<"a", DeleteMarker, "b">>}

SinkUniqueKeys == {"f1"}

Buckets == {"cfg", "prod", "fs"}

SinkMetadata == [unique_key : SinkUniqueKeys, env : {"prod"}]

SinkRows ==
    {PipelineRow(k, JInt(1), "INSERT", md) : k \in SinkKeys, md \in SinkMetadata}
    \cup {PipelineRow(k, JInt(2), "UPDATE", md) : k \in SinkKeys, md \in SinkMetadata}
    \cup {PipelineRow(k, JInt(1), "DELETE", md) : k \in SinkKeys, md \in SinkMetadata}
    \cup {PipelineRow(k, JInt(1), "UNCHANGED", md) : k \in SinkKeys, md \in SinkMetadata}

EmptyStore == [at \in Buckets \X SinkUniqueKeys |-> NoFile]

EmptyDocs == [id \in SinkKeys |-> NoDoc]

SinkImpls == {"mongo", "strategy", "bulk"}

InitSink ==
    /\ IdleSync
    /\ IdleRule
    /\ IdleLater
    /\ sink_impl \in SinkImpls
    /\ sbuffer = <<>>
    /\ buffer_size \in (IF sink_impl = "bulk" THEN 1..MaxBufferSize ELSE 0..MaxBufferSize)
    /\ collection \in (IF sink_impl = "bulk" THEN {Some(Handle("cfg"))}
                       ELSE {NoneV, Some(Handle("cfg"))})
    /\ store = EmptyStore
    /\ docs = EmptyDocs
    /\ upsert_enable \in (IF sink_impl = "bulk" THEN BOOLEAN ELSE {FALSE})
    /\ last_call = "none"
    /\ last_flush = "none"
    /\ batch = "idle"
    /\ store_before = "idle"
    /\ fpc = "idle"
    /\ pending = "idle"
    /\ existing_file = "idle"
    /\ fetched = "idle"

SinkFrame ==
    /\ UNCHANGED <<sink_impl, buffer_size, collection, upsert_enable, batch, store_before>>
    /\ UNCHANGED <<fpc, pending, existing_file, fetched>>
    /\ UNCHANGED laterVars
    /\ UNCHANGED syncVars
    /\ UNCHANGED ruleVars

\* MongoSink(config) of sinks/mongo.py: the TypeError leaves no sink to write to
MongoSinkInit ==
    /\ sink_impl = "mongo"
    /\ last_call = "none"
    /\ last_call' = MongoSink_init
    /\ UNCHANGED <<sbuffer, store, docs, last_flush>>
    /\ SinkFrame

\* MongoFileStrategy.write(row, buffer, db, collection, buffer_size), the
\* static method called with a row
StrategyWrite ==
    /\ sink_impl = "strategy"
    /\ \E row \in SinkRows :
        \E okCalls \in (IF StrategyFlushes(Append(sbuffer, row), buffer_size)
                        THEN 0..GridFSCalls(Append(sbuffer, row), collection) ELSE {0}) :
        LET r == FileStrategy_write(Some(row), sbuffer, Db, store, collection,
                                    buffer_size, okCalls)
        IN  /\ sbuffer' = r.buffer
            /\ store' = r.store
            /\ last_flush' = r.flush
    /\ last_call' = "write"
    /\ UNCHANGED docs
    /\ SinkFrame

\* the flush call: MongoFileStrategy.write with row=None ("None triggers
\* flush") and the configured buffer_size, issued when the buffer is not
\* empty, as sinks/mongo.py lines 92-100 issue it
StrategyFlush ==
    /\ sink_impl = "strategy"
    /\ \E okCalls \in (IF StrategyFlushes(sbuffer, buffer_size)
                        THEN 0..GridFSCalls(sbuffer, collection) ELSE {0}) :
        LET r == IF sbuffer # <<>>
                 THEN FileStrategy_write(NoneV, sbuffer, Db, store, collection,
                                         buffer_size, okCalls)
                 ELSE [buffer |-> sbuffer, store |-> store, flush |-> "none"]
        IN  /\ sbuffer' = r.buffer
            /\ store' = r.store
            /\ last_flush' = r.flush
    /\ last_call' = "flush"
    /\ UNCHANGED docs
    /\ SinkFrame

\* MongoFileStrategy.delete(metadata, db, collection)
StrategyDelete ==
    /\ sink_impl = "strategy"
    /\ \E md \in SinkMetadata, okCalls \in 0..2 :
        LET r == delete(md, Db, store, collection, okCalls)
        IN  /\ store' = r.store
            /\ last_flush' = IF r.raised # "" THEN "raised" ELSE "none"
    /\ last_call' = "delete"
    /\ UNCHANGED <<sbuffer, docs>>
    /\ SinkFrame

BulkWriteRow ==
    /\ sink_impl = "bulk"
    /\ \E row \in SinkRows :
        \E perm \in (IF BulkFlushes(row, sbuffer, buffer_size, upsert_enable)
                     THEN Perms(Len(sbuffer) + 1) ELSE {<<>>}) :
        \E sent \in (IF perm = <<>> THEN {0} ELSE 0..(Len(sbuffer) + 1)) :
        LET r == BulkSink_write(row, sbuffer, docs, buffer_size, upsert_enable, perm, sent)
        IN  /\ sbuffer' = r.buffer
            /\ docs' = r.docs
            /\ last_flush' = r.flush
    /\ last_call' = "write"
    /\ UNCHANGED store
    /\ SinkFrame

BulkFlush ==
    /\ sink_impl = "bulk"
    /\ \E perm \in Perms(Len(sbuffer)), sent \in 0..Len(sbuffer) :
        LET r == BulkSink_flush(sbuffer, docs, perm, sent)
        IN  /\ sbuffer' = r.buffer
            /\ docs' = r.docs
            /\ last_flush' = r.flush
    /\ last_call' = "flush"
    /\ UNCHANGED store
    /\ SinkFrame

NextSink ==
    \/ MongoSinkInit
    \/ StrategyWrite
    \/ StrategyFlush
    \/ StrategyDelete
    \/ BulkWriteRow
    \/ BulkFlush

SpecSink == InitSink /\ [][NextSink]_vars

\* C6: Sink.flush() leaves the buffer empty whatever the buffer holds and
\* whatever buffer_size is configured, full buffer or not.
C6_FlushForcesWrite ==
    last_call = "flush" => sbuffer = <<>>

\* C7: with buffer_size >= 1, a write that brings the buffer to buffer_size
\* rows flushes before it returns: the buffer always holds fewer than
\* buffer_size rows once a write has returned.
C7_WriteFlushesAtBufferSize ==
    (last_call = "write" /\ buffer_size >= 1) => Len(sbuffer) < buffer_size

\* a write that filled a buffer of size 2 or more and flushed it to the store
C7_FlushedAtBufferSize ==
    /\ sink_impl = "strategy"
    /\ last_call = "write"
    /\ buffer_size >= 2
    /\ last_flush = "ok"
    /\ sbuffer = <<>>
    /\ store # EmptyStore

\* C8: whenever a flush ran, the buffer is empty when it returns, also when
\* the destination write failed for some or all rows.
C8_BufferEmptyAfterFlush ==
    last_flush \in {"ok", "failed"} => sbuffer = <<>>

\* a flush of several rows that failed part-way and left the buffer empty
C8_FailedFlushEmptied ==
    /\ sink_impl = "strategy"
    /\ last_flush = "failed"
    /\ buffer_size >= 2
    /\ sbuffer = <<>>

(***************************************************************************)
(* One flush of a batch against a store (SpecFlush)                        *)
(***************************************************************************)
MaxBatch == 3

FlushUniqueKeys == {"f1", "f2"}

FlushMetadata == [unique_key : FlushUniqueKeys, env : {"prod"}]

FlushRows ==
    {PipelineRow(k, JInt(1), "INSERT", md) : k \in SinkKeys, md \in FlushMetadata}
    \cup {PipelineRow(k, JInt(2), "UPDATE", md) : k \in SinkKeys, md \in FlushMetadata}
    \cup {PipelineRow(k, JInt(1), "DELETE", md) : k \in SinkKeys, md \in FlushMetadata}

Batches(n) == UNION {[1..m -> FlushRows] : m \in 1..n}

StoredFile(data, uk) == [data |-> data, metadata |-> [unique_key |-> uk, env |-> "prod"]]

\* Stores of the bucket the batch is written to: f1 and f2 absent or present
StoresBefore(bucket) ==
    {[at \in Buckets \X FlushUniqueKeys |->
        IF at = <<bucket, "f1">> THEN b1
        ELSE IF at = <<bucket, "f2">> THEN b2
        ELSE NoFile] :
     b1 \in {NoFile, StoredFile(<<[k |-> <<"a", "b">>, v |-> JInt(1)]>>, "f1"),
             StoredFile(<<[k |-> <<"a", "b">>, v |-> JInt(2)],
                          [k |-> <<"a", DeleteMarker, "b">>, v |-> JInt(1)]>>, "f1")},
     b2 \in {NoFile, StoredFile(<<[k |-> <<"a", DeleteMarker, "b">>, v |-> JInt(2)]>>, "f2")}}

TargetBucket(coll) == IF coll # NoneV THEN coll.some.handle ELSE "prod"

InitFlush ==
    /\ IdleSync
    /\ IdleRule
    /\ IdleLater
    /\ sink_impl = "strategy"
    /\ buffer_size = 0
    /\ collection \in {NoneV, Some(Handle("cfg"))}
    /\ batch \in Batches(MaxBatch)
    /\ sbuffer = batch
    /\ store_before \in StoresBefore(TargetBucket(collection))
    /\ store = store_before
    /\ docs = EmptyDocs
    /\ upsert_enable = FALSE
    /\ last_call = "none"
    /\ last_flush = "none"
    /\ fpc = "idle"
    /\ pending = "idle"
    /\ existing_file = "idle"
    /\ fetched = "idle"

\* MongoFileStrategy._flush(buffer, db, collection) on the batch
FlushBatch ==
    /\ last_flush = "none"
    /\ \E okCalls \in 0..GridFSCalls(sbuffer, collection) :
        LET r == _flush(sbuffer, Db, store, collection, okCalls)
        IN  /\ sbuffer' = r.buffer
            /\ store' = r.store
            /\ last_flush' = r.flush
    /\ last_call' = "_flush"
    /\ UNCHANGED docs
    /\ SinkFrame

NextFlush == FlushBatch

SpecFlush == InitFlush /\ [][NextFlush]_vars

RowsOfFile(rows, uk, kinds) ==
    SelectSeq(rows, LAMBDA r : r.metadata.unique_key = uk /\ r.kind \in kinds)

RECURSIVE ApplyRows(_, _)
ApplyRows(data, rows) ==
    IF rows = <<>> THEN data
    ELSE LET d == ApplyRows(data, Front(rows))
             r == Last(rows)
         IN  IF r.kind = "DELETE" THEN DictPop(d, r.key) ELSE DictSet(d, r.key, r.value)

DataAt(st, at) == IF st[at] = NoFile THEN <<>> ELSE st[at].data

AsMapping(d) == {<<d[i].k, d[i].v>> : i \in DOMAIN d}

\* The content of a unique_key's blob when its INSERT and UPDATE rows are
\* applied before its DELETE rows.
InsertsBeforeDeletes(rows, st, at) ==
    ApplyRows(ApplyRows(DataAt(st, at), RowsOfFile(rows, at[2], {"INSERT", "UPDATE"})),
              RowsOfFile(rows, at[2], {"DELETE"}))

\* C9: within one flush the rows are applied grouped by unique_key, and for
\* each unique_key every INSERT and UPDATE row is applied before any DELETE
\* row: after a flush that succeeded each blob of the target bucket holds
\* what that order of application leaves.
C9_InsertsBeforeDeletes ==
    (last_call = "_flush" /\ fpc = "idle" /\ last_flush = "ok") =>
        \A uk \in FlushUniqueKeys :
            LET at == <<TargetBucket(collection), uk>>
            IN  AsMapping(DataAt(store, at)) =
                AsMapping(InsertsBeforeDeletes(batch, store_before, at))

\* C29: after a flush that succeeded, for every unique_key of the batch the
\* stored blob is the blob before the flush with the batch's rows for that
\* unique_key applied in buffer order (INSERT/UPDATE set the key, DELETE
\* removes it).
C29_BufferOrderApplied ==
    (last_call = "_flush" /\ fpc = "idle" /\ last_flush = "ok") =>
        \A uk \in FlushUniqueKeys :
            LET at == <<TargetBucket(collection), uk>>
                rows == RowsOfFile(batch, uk, {"INSERT", "UPDATE", "DELETE"})
            IN  rows # <<>> =>
                    AsMapping(DataAt(store, at))
                        = AsMapping(ApplyRows(DataAt(store_before, at), rows))

(***************************************************************************)
(* A flush beside a concurrent fetch (SpecReplace)                         *)
(*                                                                         *)
(* The flush of lines 96-137 taken one GridFS call at a time; a fetch by   *)
(* another worker may run between any two of them.                         *)
(***************************************************************************)
MaxReplaceBatch == 2

NotFetched == [fetched |-> FALSE]

InitReplace ==
    /\ IdleSync
    /\ IdleRule
    /\ IdleLater
    /\ sink_impl = "strategy"
    /\ buffer_size = 0
    /\ collection \in {NoneV, Some(Handle("cfg"))}
    /\ batch \in Batches(MaxReplaceBatch)
    /\ sbuffer = batch
    /\ store_before \in StoresBefore(TargetBucket(collection))
    /\ store = store_before
    /\ docs = EmptyDocs
    /\ upsert_enable = FALSE
    /\ last_call = "_flush"
    /\ last_flush = "none"
    /\ fpc = "find_one"
    /\ pending = FlushJobs(batch, collection)
    /\ existing_file = NoFile
    /\ fetched = NotFetched

ReplaceFrame ==
    /\ UNCHANGED <<sink_impl, buffer_size, collection, upsert_enable, batch, store_before>>
    /\ UNCHANGED <<docs, last_call>>
    /\ UNCHANGED laterVars
    /\ UNCHANGED syncVars
    /\ UNCHANGED ruleVars

\* line 99: existing_file = fs.find_one({"filename": filename})
FlushFindOne ==
    /\ fpc = "find_one"
    /\ existing_file' = store[<<Head(pending).bucket, Head(pending).filename>>]
    /\ fpc' = IF existing_file' # NoFile THEN "delete" ELSE "put"
    /\ UNCHANGED <<sbuffer, store, last_flush, pending, fetched>>
    /\ ReplaceFrame

\* lines 123-125: fs.delete(existing_file._id)
FlushDelete ==
    /\ fpc = "delete"
    /\ store' = [store EXCEPT ![<<Head(pending).bucket, Head(pending).filename>>] = NoFile]
    /\ fpc' = "put"
    /\ UNCHANGED <<sbuffer, last_flush, pending, existing_file, fetched>>
    /\ ReplaceFrame

\* lines 112-121 and 127-137: merge and fs.put, then the next file or the end
FlushPut ==
    /\ fpc = "put"
    /\ LET job == Head(pending)
           existing_data == IF existing_file = NoFile THEN <<>> ELSE existing_file.data
           merged_data == MergeUpdates(existing_data, job.updates)
       IN  store' = IF merged_data # <<>>
                    THEN [store EXCEPT ![<<job.bucket, job.filename>>] =
                            [data |-> merged_data, metadata |-> job.metadata]]
                    ELSE store
    /\ pending' = Tail(pending)
    /\ existing_file' = NoFile
    /\ IF Tail(pending) = <<>>
       THEN fpc' = "done" /\ sbuffer' = <<>> /\ last_flush' = "ok"
       ELSE fpc' = "find_one" /\ UNCHANGED <<sbuffer, last_flush>>
    /\ UNCHANGED fetched
    /\ ReplaceFrame

\* MongoFileStrategy.fetch by another worker
ConcurrentFetch ==
    /\ fpc \in {"find_one", "delete", "put", "done"}
    /\ \E md \in FlushMetadata :
        fetched' = [metadata |-> md, data |-> fetch(md, Db, store, collection)]
    /\ UNCHANGED <<sbuffer, store, last_flush, fpc, pending, existing_file>>
    /\ ReplaceFrame

NextReplace == FlushFindOne \/ FlushDelete \/ FlushPut \/ ConcurrentFetch

SpecReplace == InitReplace /\ [][NextReplace]_vars

\* C10: a fetch of a unique_key that runs beside the flush returns the
\* blob's previous content or its new merged content, never a missing blob,
\* when both contents are non-empty.
C10_AtomicReplace ==
    (fpc \in {"find_one", "delete", "put", "done"} /\ fetched # NotFetched) =>
        LET at == <<TargetBucket(collection), fetched.metadata.unique_key>>
            previous == DataAt(store_before, at)
            merged == DataAt(_flush(batch, Db, store_before, collection,
                                    GridFSCalls(batch, collection)).store, at)
        IN  (previous # <<>> /\ merged # <<>>) => fetched.data \in {previous, merged}

(***************************************************************************)
(* Self-healing reconciler service (tasks/watcher_agent.py)                *)
(*                                                                         *)
(* Time is in seconds.  What one execution does is the manager's matter:   *)
(* reconcile returns a report without errors ("ok"), a report with errors  *)
(* ("errors"), or raises ("raised"), and takes some time.                  *)
(***************************************************************************)
max_consecutive_errors == 3

PollSeconds == 10

MaxPolls == 4

MaxClock == MaxPolls * PollSeconds

ScheduleKeys == <<"org/a:main", "org/b:main">>

Intervals == {PollSeconds, 3 * PollSeconds}

Outcomes == {"ok", "errors", "raised"}

ReconciliationSchedule(interval) ==
    [interval |-> interval, enabled |-> TRUE, last_run |-> NoneV,
     last_report |-> NoneV, consecutive_errors |-> 0]

\* line 51: the schedule is due
Due(sched, now) ==
    IF sched.last_run = NoneV THEN TRUE
    ELSE now - sched.last_run.some >= sched.interval

\* _execute_sync: the schedule after an execution that ended at time ended
_execute_sync(sched, outcome, ended) ==
    IF outcome = "raised"
    THEN [sched EXCEPT !.consecutive_errors = @ + 1]
    ELSE LET errors == IF outcome = "errors" THEN sched.consecutive_errors + 1 ELSE 0
         IN  [sched EXCEPT !.last_run = Some(ended),
                           !.last_report = Some(outcome),
                           !.consecutive_errors = errors,
                           !.enabled = IF errors >= max_consecutive_errors
                                       THEN FALSE ELSE @]

NoRuns == [streak |-> 0, previous |-> NoneV, due |-> TRUE]

NoOp == [op |-> "none", key |-> "none"]

\* line 49 and line 51 as the claim reads them: the schedule is enabled and
\* interval seconds have passed since the previous execution ended
DueSincePrevious(run, sched, start) ==
    /\ sched.enabled
    /\ IF run.previous = NoneV THEN TRUE
       ELSE start - run.previous.some >= sched.interval

\* History of an execution that ended at time ended; due was evaluated when
\* the loop entered _execute_sync
Executed(run, outcome, ended, due) ==
    [streak |-> IF outcome = "ok" THEN 0 ELSE run.streak + 1,
     previous |-> Some(ended),
     due |-> due]

LoopTop == [pc |-> "top", now |-> 0, keys |-> <<>>, due |-> FALSE]

InitRecon ==
    /\ IdleSync
    /\ IdleRule
    /\ IdleSink
    /\ IdleLife
    /\ IdleHeal
    /\ IdleHook
    /\ IdleOver
    /\ IdleAuto
    /\ IdleLock
    /\ IdleSig
    /\ IdleFlat
    /\ IdleFetch
    /\ clock = 0
    /\ schedules \in [{ScheduleKeys[i] : i \in DOMAIN ScheduleKeys} ->
                        {ReconciliationSchedule(n) : n \in Intervals}]
    /\ loop = LoopTop
    /\ runs = [by |-> [k \in DOMAIN schedules |-> NoRuns], last |-> NoOp]

ReconFrame ==
    /\ UNCHANGED syncVars
    /\ UNCHANGED ruleVars
    /\ UNCHANGED sinkVars
    /\ UNCHANGED lifeVars
    /\ UNCHANGED healVars
    /\ UNCHANGED hookVars
    /\ UNCHANGED overVars
    /\ UNCHANGED autoVars
    /\ UNCHANGED lockVars
    /\ UNCHANGED sigVars
    /\ UNCHANGED flatVars
    /\ UNCHANGED fetchVars

\* lines 42-45: a pass begins
RunLoopTop ==
    /\ loop.pc = "top"
    /\ loop' = [pc |-> "visit", now |-> clock, keys |-> ScheduleKeys, due |-> FALSE]
    /\ UNCHANGED <<clock, schedules, runs>>
    /\ ReconFrame

\* lines 47-49, 51: a schedule that is disabled or not due is passed over
RunLoopSkip ==
    /\ loop.pc = "visit"
    /\ loop.keys # <<>>
    /\ LET sched == schedules[Head(loop.keys)]
       IN  ~(sched.enabled /\ Due(sched, loop.now))
    /\ loop' = [loop EXCEPT !.keys = Tail(@)]
    /\ UNCHANGED <<clock, schedules, runs>>
    /\ ReconFrame

\* lines 49-52 and 58: the schedule is enabled and due; the loop thread enters
\* _execute_sync and blocks in reconcile()
RunLoopEnter ==
    /\ loop.pc = "visit"
    /\ loop.keys # <<>>
    /\ LET key == Head(loop.keys)
           sched == schedules[key]
       IN  /\ sched.enabled
           /\ Due(sched, loop.now)
           /\ loop' = [loop EXCEPT !.pc = "reconcile",
                                   !.due = DueSincePrevious(runs.by[key], sched, clock)]
    /\ UNCHANGED <<clock, schedules, runs>>
    /\ ReconFrame

\* lines 58-70: reconcile() returns or raises and _execute_sync updates the
\* schedule as it is by then
RunLoopExecute ==
    /\ loop.pc = "reconcile"
    /\ LET key == Head(loop.keys)
           sched == schedules[key]
       IN  \E outcome \in Outcomes, took \in {0, PollSeconds} :
                /\ clock + took <= MaxClock
                /\ clock' = clock + took
                /\ schedules' = [schedules EXCEPT
                                   ![key] = _execute_sync(sched, outcome, clock + took)]
                /\ runs' = [by |-> [runs.by EXCEPT
                                      ![key] = Executed(@, outcome, clock + took, loop.due)],
                            last |-> [op |-> "execute", key |-> key]]
    /\ loop' = [loop EXCEPT !.pc = "visit", !.keys = Tail(@), !.due = FALSE]
    /\ ReconFrame

\* line 54: time.sleep(10)
RunLoopSleep ==
    /\ loop.pc = "visit"
    /\ loop.keys = <<>>
    /\ clock + PollSeconds <= MaxClock
    /\ clock' = clock + PollSeconds
    /\ loop' = [loop EXCEPT !.pc = "top"]
    /\ UNCHANGED <<schedules, runs>>
    /\ ReconFrame

\* enable_schedule and disable_schedule, called by the API
ToggleSchedule ==
    /\ \E key \in DOMAIN schedules, on \in BOOLEAN :
        /\ schedules[key].enabled # on
        /\ schedules' = [schedules EXCEPT ![key].enabled = on]
        /\ runs' = [runs EXCEPT !.last = [op |-> IF on THEN "enable" ELSE "disable",
                                          key |-> key]]
    /\ UNCHANGED <<clock, loop>>
    /\ ReconFrame

NextRecon ==
    \/ RunLoopTop
    \/ RunLoopSkip
    \/ RunLoopEnter
    \/ RunLoopExecute
    \/ RunLoopSleep
    \/ ToggleSchedule

SpecRecon == InitRecon /\ [][NextRecon]_vars

\* C11: after max_consecutive_errors consecutive failed executions of a
\* schedule with no successful one in between (failed: reconcile raised, or
\* its report has errors), the schedule's enabled flag is false.
C11_AutoDisable ==
    runs.last.op = "execute" =>
        (runs.by[runs.last.key].streak >= max_consecutive_errors
            => ~schedules[runs.last.key].enabled)

\* C12: a schedule is executed only when it is enabled and at least
\* interval seconds have passed since its previous execution (or it was
\* never executed), after successful and after failed executions alike.
C12_ExecutedOnlyWhenDue ==
    runs.last.op = "execute" => runs.by[runs.last.key].due

\* C28: in every reachable state of the service, whatever executions
\* (successful, with errors, raising) and enable_schedule / disable_schedule
\* calls led to it, a schedule that is enabled has consecutive_errors below
\* max_consecutive_errors.
C28_EnabledBelowMax ==
    \A key \in DOMAIN schedules :
        schedules[key].enabled =>
            schedules[key].consecutive_errors < max_consecutive_errors

(***************************************************************************)
(* Sync Worker: file lifecycle and data_manager                            *)
(*                                                                         *)
(* A commit is [hash, timestamp, files]; files maps each path to its       *)
(* status in the commit or to "absent" (a commit lists a path once).       *)
(* A timestamp is NoneV or Some(t) with t >= 1.                            *)
(***************************************************************************)
MaxCommits == 2

LifePaths == {"config.json", "other.json"}

FileStatus == {"added", "modified", "removed", "renamed"}

LifeRef == <<RefsHeads, "prod">>

\* the event's before SHA; the commits' hashes are 1, 2, ...
BeforeSha == 0

Touches(c, path) == c.files[path] # "absent"

\* NormalizedCommit.has_file_changed
has_file_changed(c, path) == c.files[path] \in {"added", "modified"}

\* NormalizedCommit.get_changed_files
get_changed_files(c) == {path \in DOMAIN c.files : c.files[path] \in {"added", "modified"}}

\* NormalizedPush.get_all_changed_files
get_all_changed_files(commits) ==
    UNION {get_changed_files(commits[i]) : i \in DOMAIN commits}

\* sort key of sort_commits
TimestampKey(c) == IF c.timestamp = NoneV THEN 0 ELSE c.timestamp.some

\* list.sort(key=..., reverse=reverse): stable, commits of equal key keep
\* their order in the list
sort_commits(commits, reverse) ==
    LET before(i, j) ==
            IF TimestampKey(commits[i]) = TimestampKey(commits[j]) THEN i < j
            ELSE IF reverse THEN TimestampKey(commits[i]) > TimestampKey(commits[j])
            ELSE TimestampKey(commits[i]) < TimestampKey(commits[j])
        rank(i) == 1 + Cardinality({j \in DOMAIN commits : before(j, i)})
    IN  [n \in DOMAIN commits |-> commits[CHOOSE i \in DOMAIN commits : rank(i) = n]]

\* lines 23-47 of get_file_lifecycle: the loop over the sorted commits
RECURSIVE LifecycleLoop(_, _, _)
LifecycleLoop(commits, r, ref) ==
    IF commits = <<>> THEN [path \in LifePaths |-> NoneV]
    ELSE LET seen == LifecycleLoop(Front(commits), r, ref)
             commit == Last(commits)
             ignored(path) ==
                \* added to ignored_files by an earlier commit of the loop
                /\ seen[path] = NoneV
                /\ \E i \in DOMAIN Front(commits) : Touches(commits[i], path)
         IN  [path \in LifePaths |->
                IF ~Touches(commit, path) \/ ignored(path) THEN seen[path]
                ELSE IF seen[path] # NoneV
                THEN Some([seen[path].some EXCEPT !.earliest_status = commit.files[path]])
                ELSE LET match_context == get_unique_key_and_env(r, path, ref)
                     IN  IF match_context = NoneV THEN NoneV
                         ELSE Some([latest_status |-> commit.files[path],
                                    earliest_status |-> commit.files[path],
                                    match_context |-> match_context.some])]

get_file_lifecycle(commits, r, ref) ==
    LifecycleLoop(sort_commits(commits, TRUE), r, ref)

\* WebhooksHandler._match_file_to_role
_match_file_to_role(path, ref, r) ==
    LET hit == {i \in DOMAIN r.filePathMap :
                    PathReMatch(r.filePathMap[i].pattern, path) # NoneV}
        first == CHOOSE i \in hit : \A j \in hit : i <= j
        groups == PathReMatch(r.filePathMap[first].pattern, path).some
        val == r.filePathMap[first].value
        mapped == IF FieldsOf(val) = {} THEN Some(FormatParts(val, EmptyDict))
                  ELSE LET formatted == StrFormat(val, groups)
                       IN  IF "raised" \in DOMAIN formatted THEN NoneV ELSE formatted
        byPath == IF hit = {} THEN [env |-> NoneV, variables |-> EmptyDict]
                  ELSE [env |-> IF ~Truthy(mapped) /\ "env" \in DOMAIN groups
                                THEN Some(groups.env) ELSE mapped,
                        variables |-> groups]
        found == IF r.fileName # NoneV
                 THEN [env |-> IF Some(path) = r.fileName
                               THEN _resolve_env_from_branch(r, StripRefsHeads(ref))
                               ELSE NoneV,
                       variables |-> EmptyDict]
                 ELSE byPath
    IN  IF ~Truthy(found.env) THEN NoneV
        ELSE LET \* lines 201-202: the resolved env and the repository replace
                 \* captured groups of the same names
                 variables == Update(found.variables,
                                     [env |-> found.env.some,
                                      repoName |-> Str("org/app")])
                 fmt_vars == Update([repoName |-> variables.repoName,
                                     env |-> found.env.some,
                                     branch |-> StripRefsHeads(ref),
                                     file_path |-> Str(path)],
                                    variables)
                 key == StrFormat(r.uniqueKeyName, fmt_vars)
             IN  IF "raised" \in DOMAIN key THEN NoneV
                 ELSE Some([env |-> found.env.some, key |-> key.some,
                            variables |-> variables])

ContentKinds == {"none", "no_root", "tracked"}

\* lines 259-308 for one file: find_key_iterative yields a non-empty list
\* when the document has the root key, and flatten_dfs of it raises; the
\* except clause skips the file.  Otherwise both flat maps are empty.
ProcessFile(kind) ==
    IF kind = "tracked" THEN [raised |-> "TypeError"]
    ELSE LET state_comparison == compare_states(<<>>, <<>>)
         IN  [upsert |-> state_comparison.added, delete |-> state_comparison.deleted]

\* data_manager, lines 177-315
data_manager(commits, r, ref, contents) ==
    LET sorted == sort_commits(commits, TRUE)
        all_files == get_all_changed_files(sorted)
        files_to_process ==
            {path \in all_files : _match_file_to_role(path, ref, r) # NoneV}
        last_commit_hash(path) ==
            sorted[CHOOSE i \in DOMAIN sorted :
                    /\ has_file_changed(sorted[i], path)
                    /\ \A j \in DOMAIN sorted : has_file_changed(sorted[j], path) => i <= j].hash
        done == {path \in files_to_process : "raised" \notin DOMAIN ProcessFile(contents[path])}
    IN  [fetches |-> {<<path, last_commit_hash(path)>> : path \in files_to_process}
                     \cup {<<path, BeforeSha>> : path \in files_to_process},
         upserts |-> {path \in done : ProcessFile(contents[path]).upsert # <<>>},
         deletes |-> {path \in done : ProcessFile(contents[path]).delete # <<>>},
         total_matched_files |-> Cardinality(done)]

Timestamps == {1, 2}

Chronological(commits) ==
    \/ \A i \in DOMAIN commits : commits[i].timestamp = NoneV
    \/ /\ \A i \in DOMAIN commits : commits[i].timestamp # NoneV
       /\ \A i, j \in DOMAIN commits :
            i < j => commits[i].timestamp.some <= commits[j].timestamp.some

Commits(n) ==
    {c \in [1..n -> [timestamp : {NoneV} \cup {Some(t) : t \in Timestamps},
                     files : [LifePaths -> FileStatus \cup {"absent"}]]] :
        Chronological(c)}

\* the commits of an event, hashes in chronological order
Events ==
    UNION {{[i \in 1..n |-> [hash |-> i, timestamp |-> c[i].timestamp, files |-> c[i].files]] :
                c \in Commits(n)} : n \in 1..MaxCommits}

LifeRules ==
    {r \in MatchRules : /\ r.uniqueKeyName = <<Field("env")>>
                        /\ r.variablesMap = EmptyDict
                        /\ r.branchMap = <<>>
                        /\ r.filePathMap \in {<<>>, <<[pattern |-> EnvDirPattern, value |-> <<>>]>>}}

NotRun == [called |-> FALSE]

InitLife ==
    /\ IdleSync
    /\ IdleRule
    /\ IdleSink
    /\ IdleRecon
    /\ IdleHeal
    /\ IdleHook
    /\ IdleOver
    /\ IdleAuto
    /\ IdleLock
    /\ IdleSig
    /\ IdleFlat
    /\ IdleFetch
    /\ event \in Events
    /\ role \in LifeRules
    /\ content \in [LifePaths -> ContentKinds]
    /\ lifecycle = NotRun
    /\ worked = NotRun

LifeFrame ==
    /\ UNCHANGED <<role, content>>
    /\ UNCHANGED syncVars
    /\ UNCHANGED ruleVars
    /\ UNCHANGED sinkVars
    /\ UNCHANGED reconVars
    /\ UNCHANGED healVars
    /\ UNCHANGED hookVars
    /\ UNCHANGED overVars
    /\ UNCHANGED autoVars
    /\ UNCHANGED lockVars
    /\ UNCHANGED sigVars
    /\ UNCHANGED flatVars
    /\ UNCHANGED fetchVars

\* get_file_lifecycle(git_event, rule, branch): line 18 sorts the event's own
\* commit list in place, newest first
GetFileLifecycle ==
    /\ lifecycle = NotRun
    /\ lifecycle' = get_file_lifecycle(event, role, LifeRef)
    /\ event' = sort_commits(event, TRUE)
    /\ UNCHANGED worked
    /\ LifeFrame

\* data_manager from line 177 on: actionable_items.sort_commits(reverse=True)
\* sorts the event's own commit list in place
DataManager ==
    /\ worked = NotRun
    /\ worked' = data_manager(event, role, LifeRef, content)
    /\ event' = sort_commits(event, TRUE)
    /\ UNCHANGED lifecycle
    /\ LifeFrame

NextLife == GetFileLifecycle \/ DataManager

SpecLife == InitLife /\ [][NextLife]_vars

\* the commits in the order they were pushed, oldest first, whatever order
\* the list is in by now: the hashes are 1, 2, ... in that order
Pushed(commits) ==
    [n \in DOMAIN commits |-> commits[CHOOSE i \in DOMAIN commits : commits[i].hash = n]]

\* the commits of the event that touch the path, oldest first
TouchesOf(path) == SelectSeq(Pushed(event), LAMBDA c : Touches(c, path))

\* C13: a tracked file ADDED in an earlier commit and REMOVED in a later
\* commit of the same event (earliest ADDED, latest REMOVED) is not fetched
\* and no rows are written for it.
C13_AddedThenRemovedNotFetched ==
    worked # NotRun =>
        \A path \in LifePaths :
            (/\ _match_file_to_role(path, LifeRef, role) # NoneV
             /\ Len(TouchesOf(path)) >= 2
             /\ Head(TouchesOf(path)).files[path] = "added"
             /\ Last(TouchesOf(path)).files[path] = "removed") =>
                /\ \A f \in worked.fetches : f[1] # path
                /\ path \notin worked.upserts \cup worked.deletes

\* C14: for every path that matches the rule, latest_status is the path's
\* status in the newest commit that touches it and earliest_status its
\* status in the oldest commit that touches it, with or without commit
\* timestamps.
C14_LifecycleStatuses ==
    lifecycle # NotRun =>
        \A path \in LifePaths :
            (TouchesOf(path) # <<>> /\ get_unique_key_and_env(role, path, LifeRef) # NoneV) =>
                /\ lifecycle[path] # NoneV
                /\ lifecycle[path].some.latest_status = Last(TouchesOf(path)).files[path]
                /\ lifecycle[path].some.earliest_status = Head(TouchesOf(path)).files[path]

(***************************************************************************)
(* Self-healing manager                                                    *)
(***************************************************************************)
MaxReconciles == 2

DriftType == {"MISSING_IN_DB", "EXTRA_IN_DB", "VALUE_MISMATCH"}

DriftItemFields ==
    {"key", "drift_type", "git_value", "db_value", "file_path", "unique_key",
     "environment", "timestamp"}

\* the defaults of the dataclass (timestamp, the call's moment, is left out)
DriftItemDefaults ==
    [git_value |-> NoneV, db_value |-> NoneV, file_path |-> "",
     unique_key |-> "", environment |-> ""]

\* DriftItem(key, drift_type, <keywords>, **meta): a keyword of meta that the
\* call passes itself, or that is not a field of the dataclass, is a
\* TypeError; a field the call does not pass is taken from meta.
DriftItem(key, drift_type, keywords, meta) ==
    IF DOMAIN meta \cap ({"key", "drift_type"} \cup DOMAIN keywords) # {}
    THEN [raised |-> "TypeError"]
    ELSE IF ~(DOMAIN meta \subseteq DriftItemFields) THEN [raised |-> "TypeError"]
    ELSE LET fields == Update(DriftItemDefaults, Update(keywords, meta))
         IN  [key |-> key,
              drift_type |-> drift_type,
              git_value |-> fields.git_value,
              db_value |-> fields.db_value,
              file_path |-> fields.file_path,
              unique_key |-> fields.unique_key,
              environment |-> fields.environment]

\* The Sink interface: write buffers a row, flush applies the buffer to the
\* destination, fetch reads the destination.  log records every row written.
Sink_write(sink, row) ==
    [sink EXCEPT !.buffer = Append(@, row), !.log = Append(@, row)]

Sink_flush(sink) ==
    [sink EXCEPT !.store = ApplyRows(@, sink.buffer),
                 !.buffer = <<>>,
                 !.flushes = @ + 1]

Sink_fetch(sink, meta) == sink.store

\* the one file of the rule (rule.fileName, line 97)
HealFileName == "config.json"

\* Flattenizer(root_key="varTrack"), line 68
RootKey == "varTrack"

\* ContentParser.process: no content gives {}, else the parsed document, a
\* dict of its top-level keys
ContentParser_process(raw_content) ==
    IF raw_content = NoneV THEN <<>> ELSE raw_content.some

\* find_key_iterative(obj, target_key): the list of the {path, value} hits;
\* the documents here hold the key at the top level or not at all
find_key_iterative(obj, target_key) ==
    LET hits == SelectSeq(obj, LAMBDA entry : entry.k = target_key)
    IN  [i \in DOMAIN hits |-> [path |-> hits[i].k, value |-> hits[i].v]]

\* Flattenizer.process: target_node_wrapper is a list, and a non-empty list
\* has no .get (line 24); an empty one is falsy and the answer is {}
Flattenizer_process(data) ==
    IF data = <<>> THEN [value |-> <<>>]
    ELSE LET target_node_wrapper == find_key_iterative(data, RootKey)
         IN  IF target_node_wrapper # <<>> THEN [raised |-> "AttributeError"]
             ELSE [value |-> <<>>]

\* the map under the root key, {} for a document without it
RootMap(data) ==
    IF RootKey \in DictKeys(data) THEN DictGet(data, RootKey) ELSE <<>>

\* self.flattener.process(data), line 76: the default Flattenizer, or a
\* flattener passed to the constructor that hands on the map under the root key
flattener_process(fl, data) ==
    IF fl = "Flattenizer" THEN Flattenizer_process(data)
    ELSE [value |-> RootMap(data)]

\* lines 83-90 for the two flat maps
DriftItemsOf(git, db, meta) ==
    LET diff == compare_states(git, db)
        added == [i \in DOMAIN diff.added |->
                    DriftItem(diff.added[i].k, "MISSING_IN_DB",
                              [git_value |-> diff.added[i].v,
                               file_path |-> HealFileName], meta)]
        changed == [i \in DOMAIN diff.changed |->
                      DriftItem(diff.changed[i].k, "VALUE_MISMATCH",
                                [git_value |-> diff.changed[i].v,
                                 db_value |-> DictGet(db, diff.changed[i].k),
                                 file_path |-> HealFileName], meta)]
        deleted == [i \in DOMAIN diff.deleted |->
                      DriftItem(diff.deleted[i].k, "EXTRA_IN_DB",
                                [db_value |-> DictGet(db, diff.deleted[i].k),
                                 file_path |-> HealFileName], meta)]
        items == added \o changed \o deleted
    IN  IF \E i \in DOMAIN items : "raised" \in DOMAIN items[i]
        THEN [raised |-> "TypeError"]
        ELSE [items |-> items]

_check_file_drift(fl, git_raw, db, meta) ==
    LET git_flat == flattener_process(fl, ContentParser_process(git_raw))
    IN  IF "raised" \in DOMAIN git_flat THEN [raised |-> git_flat.raised]
        ELSE DriftItemsOf(git_flat.value, db, meta)

\* rule.is_protected_from_prune(key): protected is NoneV for a rule object
\* without the method (models.rule.Rule declares none), else the keys it protects.
is_protected_from_prune(protected, key) ==
    IF protected = NoneV THEN [raised |-> "AttributeError"]
    ELSE [value |-> key \in protected.some]

RowKindOf(drift_type) ==
    IF drift_type = "MISSING_IN_DB" THEN "INSERT"
    ELSE IF drift_type = "VALUE_MISMATCH" THEN "UPDATE"
    ELSE "DELETE"

\* the loop of _apply_fixes; write_ok tells whether sink.write succeeds
RECURSIVE ApplyFixesLoop(_, _, _, _)
ApplyFixesLoop(items, acc, protected, write_ok) ==
    IF items = <<>> THEN acc
    ELSE
    LET item == Head(items)
        prot == IF item.drift_type = "EXTRA_IN_DB"
                THEN is_protected_from_prune(protected, item.key)
                ELSE [value |-> FALSE]
        row == PipelineRow(item.key, item.git_value, RowKindOf(item.drift_type),
                           [unique_key |-> item.unique_key, env |-> item.environment])
    IN  IF "raised" \in DOMAIN prot THEN [acc EXCEPT !.raised = prot.raised]
        ELSE IF prot.value THEN ApplyFixesLoop(Tail(items), acc, protected, write_ok)
        ELSE IF write_ok
        THEN ApplyFixesLoop(Tail(items),
                            [acc EXCEPT !.sink = Sink_write(@, row),
                                        !.fixes_applied = Append(@, item)],
                            protected, write_ok)
        ELSE ApplyFixesLoop(Tail(items),
                            [acc EXCEPT !.errors = Append(@, "Failed to fix")],
                            protected, write_ok)

_apply_fixes(rep, sink, protected, write_ok) ==
    LET acc == ApplyFixesLoop(rep.drift_detected,
                              [sink |-> sink, fixes_applied |-> <<>>,
                               errors |-> rep.errors, raised |-> ""],
                              protected, write_ok)
    IN  IF acc.raised # "" THEN acc
        ELSE [acc EXCEPT !.sink = Sink_flush(@)]

\* reconcile for the rule's one file; `apply` is the condition under which
\* _apply_fixes is called
Reconciled(fl, git_raw, sink, meta, protected, apply, write_ok) ==
    LET checked == _check_file_drift(fl, git_raw, Sink_fetch(sink, meta), meta)
        rep == IF "raised" \in DOMAIN checked
               THEN [drift_detected |-> <<>>, total_files_checked |-> 0,
                     errors |-> <<"Error checking">>]
               ELSE [drift_detected |-> checked.items, total_files_checked |-> 1,
                     errors |-> <<>>]
    IN  IF apply
        THEN LET acc == _apply_fixes(rep, sink, protected, write_ok)
             IN  [report |-> [drift_detected |-> rep.drift_detected,
                              total_files_checked |-> rep.total_files_checked,
                              fixes_applied |-> acc.fixes_applied,
                              errors |-> acc.errors,
                              raised |-> acc.raised],
                  sink |-> acc.sink]
        ELSE [report |-> [drift_detected |-> rep.drift_detected,
                          total_files_checked |-> rep.total_files_checked,
                          fixes_applied |-> <<>>,
                          errors |-> rep.errors,
                          raised |-> ""],
              sink |-> sink]

reconcile_whenever_auto_fix(fl, git_raw, sink, meta, protected, dry_run, auto_fix, write_ok) ==
    Reconciled(fl, git_raw, sink, meta, protected, auto_fix, write_ok)

reconcile(fl, git_raw, sink, meta, protected, dry_run, auto_fix, write_ok) ==
    Reconciled(fl, git_raw, sink, meta, protected, ~dry_run /\ auto_fix, write_ok)

HealKeys == <<1, 2, 3>>

HealValues == {JInt(1), JInt(2)}

\* the flat map that holds, in key order, the keys f gives a value
HealMap(f) ==
    LET present == SelectSeq(HealKeys, LAMBDA key : f[key] # NoneV)
    IN  [i \in DOMAIN present |-> [k |-> present[i], v |-> f[present[i]]]]

HealMaps ==
    {HealMap(f) : f \in [{HealKeys[i] : i \in DOMAIN HealKeys} -> HealValues \cup {NoneV}]}

\* what the source returns for the file: nothing, a document without the
\* root key (empty or not), or a document with the root key over a map
HealFiles ==
    {NoneV, Some(<<>>), Some(<<[k |-> "other", v |-> JInt(1)]>>)}
    \cup {Some(<<[k |-> RootKey, v |-> tree]>>) : tree \in HealMaps}

\* SelfHealingManager(source, sink, rule) as register_repository builds it,
\* or with a flattener argument
Flatteners == {"Flattenizer", "passed in"}

\* Rule.get_unique_key_and_env returns the keys unique_key and env; the second
\* meta is that of a rule object that names DriftItem's fields.
HealMetas ==
    {Metadata, [unique_key |-> "repoName-prod", environment |-> "prod"]}

ProtectedSets == {NoneV, Some({}), Some({1})}

NewSink(st) == [store |-> st, buffer |-> <<>>, flushes |-> 0, log |-> <<>>]

NoReport == [n |-> 0]

InitHeal ==
    /\ IdleSync
    /\ IdleRule
    /\ IdleSink
    /\ IdleRecon
    /\ IdleLife
    /\ IdleHook
    /\ IdleOver
    /\ IdleAuto
    /\ IdleLock
    /\ IdleSig
    /\ IdleFlat
    /\ IdleFetch
    /\ git_file \in HealFiles
    /\ flattener \in Flatteners
    /\ heal_meta \in HealMetas
    /\ prune_protected \in ProtectedSets
    /\ \E st \in HealMaps : heal_sink = NewSink(st)
    /\ report = NoReport

HealFrame ==
    /\ UNCHANGED <<git_file, flattener, heal_meta, prune_protected>>
    /\ UNCHANGED syncVars
    /\ UNCHANGED ruleVars
    /\ UNCHANGED sinkVars
    /\ UNCHANGED reconVars
    /\ UNCHANGED lifeVars
    /\ UNCHANGED hookVars
    /\ UNCHANGED overVars
    /\ UNCHANGED autoVars
    /\ UNCHANGED lockVars
    /\ UNCHANGED sigVars
    /\ UNCHANGED flatVars
    /\ UNCHANGED fetchVars

Reconcile ==
    /\ report.n < MaxReconciles
    /\ \E dry_run \in BOOLEAN, auto_fix \in BOOLEAN, write_ok \in BOOLEAN :
         LET out == reconcile(flattener, git_file, heal_sink, heal_meta,
                              prune_protected, dry_run, auto_fix, write_ok)
         IN  /\ report' = [n |-> report.n + 1,
                           dry_run |-> dry_run,
                           auto_fix |-> auto_fix,
                           before |-> heal_sink,
                           drift_detected |-> out.report.drift_detected,
                           total_files_checked |-> out.report.total_files_checked,
                           fixes_applied |-> out.report.fixes_applied,
                           errors |-> out.report.errors,
                           raised |-> out.report.raised]
             /\ heal_sink' = out.sink
    /\ HealFrame

NextHeal == Reconcile

SpecHeal == InitHeal /\ [][NextHeal]_vars

\* the drift of one key between the Git map and the stored map
DriftOf(key, git, db) ==
    IF key \in DictKeys(git) /\ key \notin DictKeys(db) THEN "MISSING_IN_DB"
    ELSE IF key \notin DictKeys(git) /\ key \in DictKeys(db) THEN "EXTRA_IN_DB"
    ELSE IF key \in DictKeys(git) /\ DictGet(git, key) # DictGet(db, key)
    THEN "VALUE_MISMATCH"
    ELSE "none"

\* the flat map of the file in Git: the map under the root key
GitFlat == RootMap(ContentParser_process(git_file))

ItemsFor(key) ==
    {i \in DOMAIN report.drift_detected : report.drift_detected[i].key = key}

Returned == report.n > 0 /\ report.raised = ""

\* C15: a reconcile with auto_fix = true and dry_run = false leaves the store
\* equal to the flat map of Git (keys protected from pruning aside), so that
\* the next reconcile finds no drift.
C15_ReconcileConverges ==
    (/\ Returned
     /\ report.auto_fix
     /\ ~report.dry_run
     /\ prune_protected = Some({})) =>
        /\ AsMapping(heal_sink.store) = AsMapping(GitFlat)
        /\ \A i \in DOMAIN HealKeys :
               DriftOf(HealKeys[i], GitFlat, heal_sink.store) = "none"

\* C16: the drift report of a reconcile holds exactly one item for each key
\* that differs between Git and the store, of type MISSING_IN_DB, EXTRA_IN_DB
\* or VALUE_MISMATCH as the key differs, and none for a key that does not.
C16_OneItemPerDifferingKey ==
    Returned =>
        \A n \in DOMAIN HealKeys :
            LET drift == DriftOf(HealKeys[n], GitFlat, report.before.store)
            IN  IF drift = "none" THEN ItemsFor(HealKeys[n]) = {}
                ELSE /\ Cardinality(ItemsFor(HealKeys[n])) = 1
                     /\ \A i \in ItemsFor(HealKeys[n]) :
                            report.drift_detected[i].drift_type = drift

\* C17: an EXTRA_IN_DB key the rule protects from pruning stays in the drift
\* report, gets no DELETE row written and is not among fixes_applied.
C17_PruneProtected ==
    (Returned /\ prune_protected # NoneV) =>
        \A key \in prune_protected.some :
            DriftOf(key, GitFlat, report.before.store) = "EXTRA_IN_DB" =>
                /\ \E i \in ItemsFor(key) :
                       report.drift_detected[i].drift_type = "EXTRA_IN_DB"
                /\ \A i \in DOMAIN heal_sink.log :
                       ~(heal_sink.log[i].key = key /\ heal_sink.log[i].kind = "DELETE")
                /\ \A i \in DOMAIN report.fixes_applied :
                       report.fixes_applied[i].key # key

\* C18: a reconcile with dry_run = true or auto_fix = false leaves the sink as
\* it was, no row written and no flush, and reports no fix applied.
C18_DryRunLeavesSink ==
    (report.n > 0 /\ (report.dry_run \/ ~report.auto_fix)) =>
        /\ heal_sink = report.before
        /\ report.fixes_applied = <<>>

C18_DriftSeenSinkUntouched ==
    /\ report.n > 0
    /\ report.dry_run
    /\ report.auto_fix
    /\ report.drift_detected # <<>>
    /\ heal_sink = report.before

(***************************************************************************)
(* Dynamic container routing: a flush of rows with and without env         *)
(***************************************************************************)
MaxRouteBatch == 2

\* env "" stands for a metadata without env (absent, None or empty:
\* `row.metadata.get('env') or 'fs'` treats the three alike)
RouteMetadata == [unique_key : SinkUniqueKeys, env : {"", "prod"}]

RouteRows ==
    {PipelineRow(k, JInt(1), "INSERT", md) : k \in SinkKeys, md \in RouteMetadata}
    \cup {PipelineRow(k, JInt(2), "UPDATE", md) : k \in SinkKeys, md \in RouteMetadata}
    \cup {PipelineRow(k, JInt(1), "DELETE", md) : k \in SinkKeys, md \in RouteMetadata}

RouteBatches == UNION {[1..m -> RouteRows] : m \in 1..MaxRouteBatch}

InitRoute ==
    /\ IdleSync
    /\ IdleRule
    /\ IdleLater
    /\ sink_impl = "strategy"
    /\ buffer_size = 0
    /\ collection = NoneV
    /\ batch \in RouteBatches
    /\ sbuffer = batch
    /\ store_before \in StoresBefore("fs") \cup StoresBefore("prod")
    /\ store = store_before
    /\ docs = EmptyDocs
    /\ upsert_enable = FALSE
    /\ last_call = "none"
    /\ last_flush = "none"
    /\ fpc = "idle"
    /\ pending = "idle"
    /\ existing_file = "idle"
    /\ fetched = NotFetched

\* MongoFileStrategy.fetch(metadata, db, collection) after the flush
RouteFetch ==
    /\ last_call = "_flush"
    /\ \E md \in RouteMetadata :
        fetched' = [metadata |-> md, data |-> fetch(md, Db, store, collection)]
    /\ UNCHANGED <<sbuffer, store, docs, last_call, last_flush>>
    /\ UNCHANGED <<sink_impl, buffer_size, collection, upsert_enable, batch, store_before>>
    /\ UNCHANGED <<fpc, pending, existing_file>>
    /\ UNCHANGED laterVars
    /\ UNCHANGED syncVars
    /\ UNCHANGED ruleVars

NextRoute == FlushBatch \/ RouteFetch

SpecRoute == InitRoute /\ [][NextRoute]_vars

LacksEnv(row) == row.metadata.env = ""

\* C19: under dynamic routing (no static collection) a flush of a batch that
\* holds a row without env ends in an error and writes that row to no
\* container: the default bucket 'fs' is left as it was, and a fetch with a
\* metadata without env reads no container.
C19_NoDefaultContainer ==
    (/\ last_call = "_flush"
     /\ collection = NoneV
     /\ \E i \in DOMAIN batch : LacksEnv(batch[i])) =>
        /\ last_flush = "failed"
        /\ \A uk \in FlushUniqueKeys : store[<<"fs", uk>>] = store_before[<<"fs", uk>>]
        /\ (fetched # NotFetched /\ fetched.metadata.env = "") => fetched.data = <<>>

(***************************************************************************)
(* Webhook setup                                                           *)
(***************************************************************************)
MaxCalls == 2

Ensurers == {"t1", "t2"}

\* GitHubSettings.create_webhooks and GitHubSource.create_webhooks
EnsureImpls == {"GitHubSettings", "GitHubSource"}

HookUrl == "https://vartrack.example/webhooks"

OtherUrl == "https://ci.example/hook"

Hook(id, url, active) == [id |-> id, url |-> url, active |-> active]

\* `for hook in repo.get_hooks(): if hook.config.url == url: existing = hook; break`
FindExisting(hs, url) ==
    LET found == {i \in DOMAIN hs : hs[i].url = url}
    IN  IF found = {} THEN NoneV
        ELSE Some(hs[CHOOSE i \in found : \A j \in found : i <= j].id)

\* existing.edit(name="web", config=config, active=True)
edit(hs, id, url) ==
    [i \in DOMAIN hs |-> IF hs[i].id = id THEN Hook(id, url, TRUE) ELSE hs[i]]

\* repo.create_hook(name="web", config=config, active=True); a platform that
\* refuses a second hook with the URL answers with a GithubException
create_hook(hs, url, rejects) ==
    IF rejects /\ FindExisting(hs, url) # NoneV
    THEN [raised |-> "GithubException", hooks |-> hs]
    ELSE [raised |-> "", hooks |-> Append(hs, Hook(Len(hs) + 1, url, TRUE))]

InitialHooks ==
    {<<>>,
     <<Hook(1, OtherUrl, TRUE)>>,
     <<Hook(1, HookUrl, FALSE)>>,
     <<Hook(1, OtherUrl, TRUE), Hook(2, HookUrl, TRUE)>>}

InitHook ==
    /\ IdleSync
    /\ IdleRule
    /\ IdleSink
    /\ IdleRecon
    /\ IdleLife
    /\ IdleHeal
    /\ IdleOver
    /\ IdleAuto
    /\ IdleLock
    /\ IdleSig
    /\ IdleFlat
    /\ IdleFetch
    /\ hooks \in InitialHooks
    /\ \E impl \in [Ensurers -> EnsureImpls] :
         callers = [t \in Ensurers |->
                      [pc |-> "idle", existing |-> NoneV, calls |-> 0, impl |-> impl[t]]]
    /\ platform_rejects \in BOOLEAN

HookFrame ==
    /\ UNCHANGED platform_rejects
    /\ UNCHANGED syncVars
    /\ UNCHANGED ruleVars
    /\ UNCHANGED sinkVars
    /\ UNCHANGED reconVars
    /\ UNCHANGED lifeVars
    /\ UNCHANGED healVars
    /\ UNCHANGED overVars
    /\ UNCHANGED autoVars
    /\ UNCHANGED lockVars
    /\ UNCHANGED sigVars
    /\ UNCHANGED flatVars
    /\ UNCHANGED fetchVars

\* GitHubSettings.create_webhooks, lines 327-343: a thread walks
\* repo.get_hooks() looking for generate_webhook_url(datasource)
GetHooks(t) ==
    /\ callers[t].pc = "idle"
    /\ callers[t].impl = "GitHubSettings"
    /\ callers[t].calls < MaxCalls
    /\ callers' = [callers EXCEPT ![t].pc = "found",
                                  ![t].existing = FindExisting(hooks, HookUrl),
                                  ![t].calls = @ + 1]
    /\ UNCHANGED hooks
    /\ HookFrame

\* GitHubSource.create_webhooks, lines 129 and 139: self.settings.org_name
\* (a name without '/') and self.settings.construct_clone_url(repo_name) are
\* attributes GitHubSettings does not have; the AttributeError is not a
\* GithubException and leaves create_webhooks before repo.get_hooks()
SourceCreateWebhooks(t) ==
    /\ callers[t].pc = "idle"
    /\ callers[t].impl = "GitHubSource"
    /\ callers' = [callers EXCEPT ![t].pc = "AttributeError",
                                  ![t].calls = @ + 1]
    /\ UNCHANGED hooks
    /\ HookFrame

\* `if existing:` branch
EditHook(t) ==
    /\ callers[t].pc = "found"
    /\ callers[t].existing # NoneV
    /\ hooks' = edit(hooks, callers[t].existing.some, HookUrl)
    /\ callers' = [callers EXCEPT ![t].pc = "idle"]
    /\ HookFrame

\* `else:` branch; lines 353-354 turn a GithubException into SystemExit,
\* which ends the thread
CreateHook(t) ==
    /\ callers[t].pc = "found"
    /\ callers[t].existing = NoneV
    /\ LET made == create_hook(hooks, HookUrl, platform_rejects)
       IN  /\ hooks' = made.hooks
           /\ callers' = [callers EXCEPT ![t].pc =
                            IF made.raised # "" THEN "exited" ELSE "idle"]
    /\ HookFrame

NextHook ==
    \E t \in Ensurers :
        \/ GetHooks(t)
        \/ SourceCreateWebhooks(t)
        \/ EditHook(t)
        \/ CreateHook(t)

SpecHook == InitHook /\ [][NextHook]_vars

HooksWithUrl == {i \in DOMAIN hooks : hooks[i].url = HookUrl}

\* C20: whatever create_webhooks calls have run for the repository and the
\* URL, one after another or side by side, the repository holds at most one
\* hook with that URL.
C20_AtMostOneHook == Cardinality(HooksWithUrl) <= 1

(***************************************************************************)
(* filePathMap resolution: rules with several entries                      *)
(***************************************************************************)
PathMaps ==
    {<<[pattern |-> ProdDirPattern, value |-> <<Lit("production")>>],
       [pattern |-> EnvDirPattern, value |-> <<Field("env")>>]>>,
     <<[pattern |-> ProdDirPattern, value |-> <<>>],
       [pattern |-> EnvDirPattern, value |-> <<Field("env")>>]>>,
     <<[pattern |-> RegionDirPattern, value |-> <<>>],
       [pattern |-> EnvDirPattern, value |-> <<>>]>>,
     <<[pattern |-> EnvDirPattern, value |-> <<>>],
       [pattern |-> RegionDirPattern, value |-> <<Field("region")>>]>>,
     <<[pattern |-> RegionDirPattern, value |-> <<Lit("eu-"), Field("region")>>],
       [pattern |-> EnvDirPattern, value |-> <<>>]>>}

PathUniqueKeyNames ==
    {<<Field("env")>>,
     <<Field("region"), Lit("-"), Field("env")>>,
     <<Field("file_path")>>}

PathRules ==
    {r \in [fileName : {NoneV, Some("config.json")},
            envAsBranch : BOOLEAN,
            branchMap : {<<>>},
            filePathMap : PathMaps,
            uniqueKeyName : PathUniqueKeyNames,
            variablesMap : {EmptyDict}] : ValidRule(r)}

InitPath ==
    /\ IdleSync
    /\ IdleSink
    /\ IdleLater
    /\ mrule \in PathRules
    /\ file_path \in FilePaths
    /\ branch \in Refs
    /\ match = NotCalled

NextPath == GetUniqueKeyAndEnv

SpecPath == InitPath /\ [][NextPath]_vars

\* the entries of the rule's filePathMap whose pattern matches file_path
MatchingEntries ==
    {i \in DOMAIN mrule.filePathMap :
        PathReMatch(mrule.filePathMap[i].pattern, file_path) # NoneV}

EntryGroups(i) == PathReMatch(mrule.filePathMap[i].pattern, file_path).some

\* the env entry i resolves to, from a local copy of the base variables
EntryEnv(i) ==
    _interpret_map_value(mrule.filePathMap[i].value,
                         Update(_build_base_variables(mrule, file_path, branch),
                                EntryGroups(i)),
                         EntryGroups(i))

ResolvingEntries == {i \in MatchingEntries : Truthy(EntryEnv(i))}

FirstOf(entries) == CHOOSE i \in entries : \A j \in entries : i <= j

\* C26 as stated: the env comes from the first entry whose pattern matches;
\* once a pattern has matched no later entry is consulted.
C26_FirstMatchingEntry ==
    (match # NotCalled /\ MatchingEntries # {} /\ match # NoneV
     /\ Some(file_path) # mrule.fileName) =>
        /\ Truthy(EntryEnv(FirstOf(MatchingEntries)))
        /\ match.some.env = EntryEnv(FirstOf(MatchingEntries)).some

\* C26: the env is taken from the first entry, in declaration order, whose
\* pattern matches file_path and whose value resolves to a non-empty env (an
\* entry that matches without resolving an env is passed over), and the
\* unique key is formatted from the base variables, that entry's capture
\* groups and env, with no other entry's groups.
C26_FirstResolvingEntry ==
    (match # NotCalled /\ ResolvingEntries # {}) =>
        LET w == FirstOf(ResolvingEntries)
            variables == Update(Update(_build_base_variables(mrule, file_path, branch),
                                       EntryGroups(w)),
                                [env |-> EntryEnv(w).some])
        IN  /\ match # NoneV
            /\ match.some.env = EntryEnv(w).some
            /\ match.some.unique_key = _format_unique_key(mrule, variables)

C26_LaterEntryWins ==
    /\ match # NotCalled
    /\ match # NoneV
    /\ ResolvingEntries # {}
    /\ FirstOf(MatchingEntries) < FirstOf(ResolvingEntries)
    /\ match.some.env = EntryEnv(FirstOf(ResolvingEntries)).some

(***************************************************************************)
(* Override resolution                                                     *)
(***************************************************************************)
MaxOverrides == 2

\* `r in repo_name` for strings: r occurs in repo_name as a contiguous run
IsSubstring(r, s) ==
    \E i \in 0..(Len(s) - Len(r)) : SubSeq(s, i + 1, i + Len(r)) = r

\* any(r in repo_name for r in names)
AnyIn(names, repo) == \E i \in DOMAIN names : IsSubstring(names[i], repo)

\* lines 143-149 of rule.py (138-144 of role.py): the override's repository
\* tests; an empty or absent list tests nothing
OverrideMatches(override, repo) ==
    /\ override.matchRepositories # <<>> => AnyIn(override.matchRepositories, repo)
    /\ override.excludeRepositories # <<>> => ~AnyIn(override.excludeRepositories, repo)

\* final_config.update(updates), override after override
RECURSIVE UpdateAll(_, _)
UpdateAll(config, overrides) ==
    IF overrides = <<>> THEN config
    ELSE UpdateAll(Update(config, Head(overrides).updates), Tail(overrides))

\* Rule.resolve_rule_for_repo: the rule itself when it has no overrides;
\* else Rule(**final_config) at the end of the first loop pass that is not
\* cut short by `continue`; None when every pass is.
resolve_rule_for_repo(r, repo) ==
    IF r.overrides = <<>> THEN Some(r.config)
    ELSE LET applied == {i \in DOMAIN r.overrides :
                            /\ r.overrides[i].enable
                            /\ OverrideMatches(r.overrides[i], repo)}
         IN  IF applied = {} THEN NoneV
             ELSE LET first == CHOOSE i \in applied : \A j \in applied : i <= j
                  IN  Some(Update(r.config, r.overrides[first].updates))

\* Role.get_effective_config: every override that matches is applied,
\* whatever its enable field; Role(**final_config) after the loop
get_effective_config(r, repo) ==
    IF r.overrides = <<>> THEN Some(r.config)
    ELSE Some(UpdateAll(r.config,
                        SelectSeq(r.overrides, LAMBDA o : OverrideMatches(o, repo))))

BaseConfig ==
    [fileName |-> "config.json", branchMap |-> [main |-> "prod"]]

OverrideUpdates ==
    {[fileName |-> "app.json"],
     [branchMap |-> [dev |-> "dev"]],
     [fileName |-> "web.json", branchMap |-> [main |-> "main"]]}

RepositoryOverride ==
    [matchRepositories : {<<>>, <<Str("app")>>, <<Str("web")>>},
     excludeRepositories : {<<>>, <<Str("legacy")>>},
     enable : BOOLEAN,
     updates : OverrideUpdates]

RepoNames ==
    {<<"org", "/", "app">>, <<"org", "/", "app", "-", "legacy">>, <<"org", "/", "web">>}

OverRules ==
    {[config |-> BaseConfig, overrides |-> os] :
        os \in UNION {[1..n -> RepositoryOverride] : n \in 0..MaxOverrides}}

InitOver ==
    /\ IdleSync
    /\ IdleRule
    /\ IdleSink
    /\ IdleRecon
    /\ IdleLife
    /\ IdleHeal
    /\ IdleHook
    /\ IdleAuto
    /\ IdleLock
    /\ IdleSig
    /\ IdleFlat
    /\ IdleFetch
    /\ orule \in OverRules
    /\ repo_name \in RepoNames
    /\ resolved = [rule |-> NotCalled, role |-> NotCalled]

OverFrame ==
    /\ UNCHANGED <<orule, repo_name>>
    /\ UNCHANGED syncVars
    /\ UNCHANGED ruleVars
    /\ UNCHANGED sinkVars
    /\ UNCHANGED reconVars
    /\ UNCHANGED lifeVars
    /\ UNCHANGED healVars
    /\ UNCHANGED hookVars
    /\ UNCHANGED autoVars
    /\ UNCHANGED lockVars
    /\ UNCHANGED sigVars
    /\ UNCHANGED flatVars
    /\ UNCHANGED fetchVars

ResolveRuleForRepo ==
    /\ resolved.rule = NotCalled
    /\ resolved' = [resolved EXCEPT !.rule = resolve_rule_for_repo(orule, repo_name)]
    /\ OverFrame

GetEffectiveConfig ==
    /\ resolved.role = NotCalled
    /\ resolved' = [resolved EXCEPT !.role = get_effective_config(orule, repo_name)]
    /\ OverFrame

NextOver == ResolveRuleForRepo \/ GetEffectiveConfig

SpecOver == InitOver /\ [][NextOver]_vars

\* the overrides the resolution is to apply: enabled and matching repo_name
Applicable ==
    SelectSeq(orule.overrides, LAMBDA o : o.enable /\ OverrideMatches(o, repo_name))

\* dictionaries are merged key by key, scalars and lists replaced
DeepMerge(config, updates) ==
    [x \in DOMAIN config \cup DOMAIN updates |->
        IF x \notin DOMAIN updates THEN config[x]
        ELSE IF x = "branchMap" /\ x \in DOMAIN config
        THEN Update(config[x], updates[x])
        ELSE updates[x]]

RECURSIVE DeepMergeAll(_, _)
DeepMergeAll(config, overrides) ==
    IF overrides = <<>> THEN config
    ELSE DeepMergeAll(DeepMerge(config, Head(overrides).updates), Tail(overrides))

\* C27: the resolved configuration is the base with every enabled and
\* matching override merged onto it in declaration order, dictionaries
\* deep-merged and scalars replaced; disabled and non-matching overrides
\* change nothing.  Both resolvers are held to it.
C27_AllMatchingOverridesMerged ==
    /\ resolved.rule # NotCalled =>
           resolved.rule = Some(DeepMergeAll(orule.config, Applicable))
    /\ resolved.role # NotCalled =>
           resolved.role = Some(DeepMergeAll(orule.config, Applicable))

\* C30: resolve_rule_for_repo never returns null, and with no override
\* enabled and matching it returns the base rule.
C30_NeverNull ==
    resolved.rule # NotCalled =>
        /\ resolved.rule # NoneV
        /\ Applicable = <<>> => resolved.rule = Some(orule.config)

(***************************************************************************)
(* Sync-mode chooser                                                       *)
(*                                                                         *)
(* The costs are Python floats: IEEE 754 doubles, every operation rounded  *)
(* to nearest, ties to even.  A natural number of any size is the sequence *)
(* of its limbs, least significant first; a double is m * 2^e with m of 53 *)
(* bits (or zero).  No cost of the chooser is negative, subnormal or       *)
(* infinite.  A latency is given in ticks of 25 microseconds and is the    *)
(* double nearest to ticks / 40000 seconds.                                *)
(***************************************************************************)
Limb == 2 ^ 15

\* 52 stored bits and the implicit leading one
MantissaBits == 52 + 1

RECURSIVE NatOf(_)
NatOf(n) == IF n = 0 THEN <<>> ELSE <<n % Limb>> \o NatOf(n \div Limb)

RECURSIVE NatNorm(_)
NatNorm(a) ==
    IF a = <<>> THEN <<>>
    ELSE IF a[Len(a)] = 0 THEN NatNorm(SubSeq(a, 1, Len(a) - 1))
    ELSE a

RECURSIVE NatAdd(_, _, _)
NatAdd(a, b, carry) ==
    IF a = <<>> /\ b = <<>> THEN (IF carry = 0 THEN <<>> ELSE <<carry>>)
    ELSE LET x == IF a = <<>> THEN 0 ELSE Head(a)
             y == IF b = <<>> THEN 0 ELSE Head(b)
             t == x + y + carry
         IN  <<t % Limb>> \o NatAdd(IF a = <<>> THEN <<>> ELSE Tail(a),
                                    IF b = <<>> THEN <<>> ELSE Tail(b),
                                    t \div Limb)

\* a * k for 0 <= k <= Limb
RECURSIVE NatMulSmall(_, _, _)
NatMulSmall(a, k, carry) ==
    IF a = <<>> THEN (IF carry = 0 THEN <<>> ELSE <<carry>>)
    ELSE LET t == Head(a) * k + carry
         IN  <<t % Limb>> \o NatMulSmall(Tail(a), k, t \div Limb)

RECURSIVE NatMul(_, _)
NatMul(a, b) ==
    IF b = <<>> \/ a = <<>> THEN <<>>
    ELSE NatNorm(NatAdd(NatMulSmall(a, Head(b), 0), <<0>> \o NatMul(a, Tail(b)), 0))

\* quotient and remainder of a by d, 0 < d <= Limb
RECURSIVE NatDivSmall(_, _)
NatDivSmall(a, d) ==
    IF a = <<>> THEN [q |-> <<>>, r |-> 0]
    ELSE LET hi == NatDivSmall(Tail(a), d)
             cur == hi.r * Limb + Head(a)
         IN  [q |-> <<cur \div d>> \o hi.q, r |-> cur % d]

\* -1, 0, 1 as a < b, a = b, a > b; a and b without leading zero limbs
RECURSIVE NatCmp(_, _)
NatCmp(a, b) ==
    IF Len(a) # Len(b) THEN (IF Len(a) < Len(b) THEN -1 ELSE 1)
    ELSE IF a = <<>> THEN 0
    ELSE IF a[Len(a)] # b[Len(b)] THEN (IF a[Len(a)] < b[Len(b)] THEN -1 ELSE 1)
    ELSE NatCmp(SubSeq(a, 1, Len(a) - 1), SubSeq(b, 1, Len(b) - 1))

RECURSIVE SmallBitLen(_)
SmallBitLen(n) == IF n = 0 THEN 0 ELSE 1 + SmallBitLen(n \div 2)

BitLen(a) == IF a = <<>> THEN 0 ELSE 15 * (Len(a) - 1) + SmallBitLen(a[Len(a)])

ShiftLeft(a, n) ==
    IF a = <<>> THEN <<>>
    ELSE [i \in 1..(n \div 15) |-> 0] \o NatNorm(NatMulSmall(a, 2 ^ (n % 15), 0))

\* a shifted right by n bits, and whether a bit that was shifted out was set
ShiftRight(a, n) ==
    LET limbs == IF n \div 15 > Len(a) THEN Len(a) ELSE n \div 15
        low == SubSeq(a, 1, limbs)
        qr == NatDivSmall(SubSeq(a, limbs + 1, Len(a)), 2 ^ (n % 15))
    IN  [q |-> NatNorm(qr.q),
         sticky |-> qr.r # 0 \/ \E i \in DOMAIN low : low[i] # 0]

IsOdd(a) == a # <<>> /\ a[1] % 2 = 1

DZero == [m |-> <<>>, e |-> 0]

\* the double nearest to n * 2^e (plus, when sticky, a positive amount
\* below 2^e), ties to even
Round(n, e, sticky) ==
    LET bl == BitLen(n)
    IN  IF n = <<>> THEN DZero
        ELSE IF bl <= MantissaBits
        THEN [m |-> ShiftLeft(n, MantissaBits - bl), e |-> e - (MantissaBits - bl)]
        ELSE LET s == bl - MantissaBits
                 t == ShiftRight(n, s - 1)
                 half == IsOdd(t.q)
                 rest == t.sticky \/ sticky
                 m0 == ShiftRight(t.q, 1).q
                 up == half /\ (rest \/ IsOdd(m0))
                 m1 == IF up THEN NatNorm(NatAdd(m0, <<1>>, 0)) ELSE m0
             IN  IF BitLen(m1) > MantissaBits
                 THEN [m |-> ShiftRight(m1, 1).q, e |-> e + s + 1]
                 ELSE [m |-> m1, e |-> e + s]

\* float(n) for an int 0 <= n < 2^31
DFromInt(n) == Round(NatOf(n), 0, FALSE)

RECURSIVE TwoAdic(_)
TwoAdic(q) == IF q % 2 = 1 THEN 0 ELSE 1 + TwoAdic(q \div 2)

\* x / float(q), for an int q whose odd part is at most Limb
DDivInt(x, q) ==
    LET k == TwoAdic(q)
        qr == NatDivSmall(ShiftLeft(x.m, 80), q \div (2 ^ k))
    IN  Round(NatNorm(qr.q), x.e - 80 - k, qr.r # 0)

\* the double a decimal literal p/q denotes
Float(fraction) == DDivInt(DFromInt(fraction[1]), fraction[2])

DMul(x, y) == Round(NatMul(x.m, y.m), x.e + y.e, FALSE)

\* x and y as naturals of one exponent
Aligned(x, y) ==
    LET e == IF x.e < y.e THEN x.e ELSE y.e
    IN  [x |-> ShiftLeft(x.m, x.e - e), y |-> ShiftLeft(y.m, y.e - e), e |-> e]

DAdd(x, y) ==
    IF x.m = <<>> THEN y
    ELSE IF y.m = <<>> THEN x
    ELSE LET al == Aligned(x, y)
         IN  Round(NatNorm(NatAdd(al.x, al.y, 0)), al.e, FALSE)

\* x <= y
DLeq(x, y) ==
    IF x.m = <<>> THEN TRUE
    ELSE IF y.m = <<>> THEN FALSE
    ELSE LET al == Aligned(x, y)
         IN  NatCmp(al.x, al.y) <= 0

AVG_BANDWIDTH_MBPS == 20

WRITE_COST_MS == <<1, 2>>

READ_ID_COST_MS == <<1, 20>>

DRIFT_RATE == <<1, 20>>

\* a latency of so many ticks, in seconds
Latency(ticks) == Float(<<ticks, 40000>>)

\* N = content.count('\n') or 1
ApproxKeys(newlines) == IF newlines = 0 THEN 1 ELSE newlines

\* lines 40-43: S / (AVG_BANDWIDTH_MBPS * 1024 * 1024), doubled for a file
\* strategy
cost_live(S, L, is_file_strategy) ==
    LET download_time == DDivInt(DFromInt(S), AVG_BANDWIDTH_MBPS * 1024 * 1024)
    IN  DAdd(L, IF is_file_strategy THEN DMul(download_time, DFromInt(2))
                ELSE download_time)

\* lines 47-48
cost_upsert(N, L) ==
    LET write_time == DDivInt(DMul(DFromInt(N), Float(WRITE_COST_MS)), 1000)
    IN  DAdd(L, write_time)

\* lines 52-54
cost_repair(N, L) ==
    LET read_time == DDivInt(DMul(DFromInt(N), Float(READ_ID_COST_MS)), 1000)
        repair_write_time ==
            DDivInt(DMul(DMul(DFromInt(N), Float(DRIFT_RATE)), Float(WRITE_COST_MS)),
                    1000)
    IN  DAdd(DAdd(DMul(DFromInt(2), L), read_time), repair_write_time)

\* lines 57-62
PickWinner(live, upsert, repair) ==
    IF DLeq(live, upsert) /\ DLeq(live, repair) THEN "LIVE_STATE"
    ELSE IF DLeq(upsert, repair) THEN "GIT_UPSERT_ALL"
    ELSE "GIT_SMART_REPAIR"

\* lines 32-62 of decide, for a non-empty content
decide_by_cost(in) ==
    LET N == ApproxKeys(in.newlines)
        L == Latency(in.latency)
    IN  PickWinner(cost_live(in.size, L, in.is_file_strategy),
                   cost_upsert(N, L),
                   cost_repair(N, L))

\* the rule object whose resolve_sync_mode is called: syncMode AUTO
AutoRule(in) ==
    [syncMode |-> "AUTO", decided |-> decide_by_cost(in),
     resolveParams |-> in.resolveParams, variablesMap |-> <<>>]

AutoSizes == {0, 1, 1024, 131072, 262144, 524288}

AutoNewlines == {0, 1, 25, 50}

\* 0; 0.425 ms; 10.625 ms; 21.25 ms; the 100 ms assumed when the ping fails
AutoLatencies == {0, 17, 425, 850, 4000}

AutoInputs ==
    {in \in [size : AutoSizes, newlines : AutoNewlines, latency : AutoLatencies,
             is_file_strategy : BOOLEAN, resolveParams : {2, 3}] :
        in.newlines <= in.size}

NotChosen == "none"

InitAuto ==
    /\ IdleSync
    /\ IdleRule
    /\ IdleSink
    /\ IdleRecon
    /\ IdleLife
    /\ IdleHeal
    /\ IdleHook
    /\ IdleOver
    /\ IdleLock
    /\ IdleSig
    /\ IdleFlat
    /\ IdleFetch
    /\ auto_input \in AutoInputs
    /\ chosen = NotChosen

AutoFrame ==
    /\ UNCHANGED syncVars
    /\ UNCHANGED ruleVars
    /\ UNCHANGED sinkVars
    /\ UNCHANGED reconVars
    /\ UNCHANGED lifeVars
    /\ UNCHANGED healVars
    /\ UNCHANGED hookVars
    /\ UNCHANGED overVars
    /\ UNCHANGED lockVars
    /\ UNCHANGED sigVars
    /\ UNCHANGED flatVars
    /\ UNCHANGED fetchVars

\* rule.resolve_sync_mode(...) called with the arguments its signature takes
ResolveSyncMode ==
    /\ chosen = NotChosen
    /\ chosen' = resolve_sync_mode(AutoRule(auto_input), auto_input.size = 0,
                                   auto_input.resolveParams)
    /\ UNCHANGED auto_input
    /\ AutoFrame

NextAuto == ResolveSyncMode

SpecAuto == InitAuto /\ [][NextAuto]_vars

CostOf(mode) ==
    LET N == ApproxKeys(auto_input.newlines)
        L == Latency(auto_input.latency)
    IN  IF mode = "LIVE_STATE"
        THEN cost_live(auto_input.size, L, auto_input.is_file_strategy)
        ELSE IF mode = "GIT_UPSERT_ALL" THEN cost_upsert(N, L)
        ELSE cost_repair(N, L)

Preference == <<"LIVE_STATE", "GIT_UPSERT_ALL", "GIT_SMART_REPAIR">>

\* C25: for a non-empty content the AUTO chooser returns a mode of minimum
\* cost, and among modes of minimum cost the first of LIVE_STATE,
\* GIT_UPSERT_ALL, GIT_SMART_REPAIR.
C25_MinimumCostMode ==
    (chosen # NotChosen /\ auto_input.size > 0) =>
        \E i \in DOMAIN Preference :
            /\ chosen = Preference[i]
            /\ \A j \in DOMAIN Preference :
                    DLeq(CostOf(Preference[i]), CostOf(Preference[j]))
            /\ \A j \in 1..(i - 1) :
                    ~DLeq(CostOf(Preference[j]), CostOf(Preference[i]))

(***************************************************************************)
(* Reconciler threads                                                      *)
(*                                                                         *)
(* Three threads of one ReconciliationService: a caller of                 *)
(* register_repository, a caller of enable_schedule / disable_schedule,    *)
(* and the thread of _run_loop.  A step is a statement of the source, or   *)
(* a run of statements no other thread can tell apart from one.            *)
(* _schedules is a dict (insertion order); the loop holds a reference to   *)
(* the schedule object it read at line 48, which register_repository may   *)
(* meanwhile replace in the dict.                                          *)
(***************************************************************************)
MaxLockPolls == 2

MaxLockClock == MaxLockPolls * PollSeconds

LockKeys == <<"org/app:main", "org/app:dev">>

LockKeySet == {LockKeys[i] : i \in DOMAIN LockKeys}

NoAccess == [kind |-> "none", thread |-> "none", holder |-> "none"]

Access(kind, thread) == [kind |-> kind, thread |-> thread, holder |-> lk_holder]

RegistrarIdle == [at |-> "idle", key |-> LockKeys[1], interval |-> PollSeconds]

LoopAt(at, key) == [at |-> at, key |-> key, replaced |-> FALSE]

InitLock ==
    /\ IdleSync
    /\ IdleRule
    /\ IdleSink
    /\ IdleRecon
    /\ IdleLife
    /\ IdleHeal
    /\ IdleHook
    /\ IdleOver
    /\ IdleAuto
    /\ IdleSig
    /\ IdleFlat
    /\ IdleFetch
    /\ lk_holder = "none"
    /\ lk_pc = [registrar |-> RegistrarIdle, loop |-> LoopAt("top", LockKeys[1])]
    /\ lk_schedules = <<>>
    /\ lk_managers = {}
    /\ lk_keys = <<>>
    /\ lk_last = NoAccess
    /\ lk_clock = 0

LockFrame ==
    /\ UNCHANGED syncVars
    /\ UNCHANGED ruleVars
    /\ UNCHANGED sinkVars
    /\ UNCHANGED reconVars
    /\ UNCHANGED lifeVars
    /\ UNCHANGED healVars
    /\ UNCHANGED hookVars
    /\ UNCHANGED overVars
    /\ UNCHANGED autoVars
    /\ UNCHANGED sigVars
    /\ UNCHANGED flatVars
    /\ UNCHANGED fetchVars

\* register_repository, line 30: with self._lock (enter)
RegisterAcquire ==
    /\ lk_pc.registrar.at = "idle"
    /\ lk_holder = "none"
    /\ \E key \in LockKeySet, interval \in Intervals :
         lk_pc' = [lk_pc EXCEPT !.registrar = [at |-> "schedule", key |-> key,
                                               interval |-> interval]]
    /\ lk_holder' = "registrar"
    /\ UNCHANGED <<lk_schedules, lk_managers, lk_keys, lk_last, lk_clock>>
    /\ LockFrame

\* line 31: self._schedules[key] = ReconciliationSchedule(...); a schedule the
\* loop is executing is no longer the one in the dict
RegisterSchedule ==
    /\ lk_pc.registrar.at = "schedule"
    /\ lk_schedules' = DictSet(lk_schedules, lk_pc.registrar.key,
                               ReconciliationSchedule(lk_pc.registrar.interval))
    /\ lk_last' = Access("add", "registrar")
    /\ lk_pc' = [lk_pc EXCEPT
                   !.registrar.at = "manager",
                   !.loop.replaced = IF lk_pc.loop.at = "reconcile"
                                        /\ lk_pc.loop.key = lk_pc.registrar.key
                                     THEN TRUE ELSE @]
    /\ UNCHANGED <<lk_holder, lk_managers, lk_keys, lk_clock>>
    /\ LockFrame

\* line 32: self._managers[key] = SelfHealingManager(...), then the lock is left
RegisterManager ==
    /\ lk_pc.registrar.at = "manager"
    /\ lk_managers' = lk_managers \cup {lk_pc.registrar.key}
    /\ lk_holder' = "none"
    /\ lk_pc' = [lk_pc EXCEPT !.registrar.at = "idle"]
    /\ UNCHANGED <<lk_schedules, lk_keys, lk_last, lk_clock>>
    /\ LockFrame

\* enable_schedule / disable_schedule, lines 80-84: one assignment, no lock;
\* an unknown key raises KeyError
ToggleEnabled ==
    /\ \E key \in LockKeySet, flag \in BOOLEAN :
         IF key \notin DictKeys(lk_schedules)
         THEN /\ lk_last' = Access("KeyError", "toggler")
              /\ UNCHANGED lk_schedules
         ELSE /\ lk_schedules' = DictSet(lk_schedules, key,
                                         [DictGet(lk_schedules, key) EXCEPT !.enabled = flag])
              /\ lk_last' = Access("toggle", "toggler")
    /\ UNCHANGED <<lk_holder, lk_pc, lk_managers, lk_keys, lk_clock>>
    /\ LockFrame

\* _run_loop, lines 43-44: now = utcnow(); with self._lock (enter)
LoopAcquire ==
    /\ lk_pc.loop.at = "top"
    /\ lk_holder = "none"
    /\ lk_holder' = "loop"
    /\ lk_pc' = [lk_pc EXCEPT !.loop.at = "snapshot"]
    /\ UNCHANGED <<lk_schedules, lk_managers, lk_keys, lk_last, lk_clock>>
    /\ LockFrame

\* line 45: keys = list(self._schedules.keys()), then the lock is left
LoopSnapshot ==
    /\ lk_pc.loop.at = "snapshot"
    /\ lk_keys' = [i \in DOMAIN lk_schedules |-> lk_schedules[i].k]
    /\ lk_last' = Access("snapshot", "loop")
    /\ lk_holder' = "none"
    /\ lk_pc' = [lk_pc EXCEPT !.loop.at = "visit"]
    /\ UNCHANGED <<lk_schedules, lk_managers, lk_clock>>
    /\ LockFrame

\* lines 47-52: the next key of the snapshot; a schedule that is disabled or
\* not due is passed over, another is handed to _execute_sync
LoopVisit ==
    /\ lk_pc.loop.at = "visit"
    /\ lk_keys # <<>>
    /\ LET key == Head(lk_keys)
           sched == DictGet(lk_schedules, key)
       IN  IF sched.enabled /\ Due(sched, lk_clock)
           THEN /\ lk_pc' = [lk_pc EXCEPT !.loop = LoopAt("reconcile", key)]
                /\ UNCHANGED lk_keys
           ELSE /\ lk_keys' = Tail(lk_keys)
                /\ UNCHANGED lk_pc
    /\ UNCHANGED <<lk_holder, lk_schedules, lk_managers, lk_last, lk_clock>>
    /\ LockFrame

\* _execute_sync, lines 58-70: reconcile() returns or raises, and the
\* schedule object read at line 48 is updated
LoopExecute ==
    /\ lk_pc.loop.at = "reconcile"
    /\ LET key == lk_pc.loop.key
           sched == DictGet(lk_schedules, key)
       IN  \E outcome \in Outcomes :
             lk_schedules' = IF lk_pc.loop.replaced THEN lk_schedules
                             ELSE DictSet(lk_schedules, key,
                                          _execute_sync(sched, outcome, lk_clock))
    /\ lk_last' = Access("execute", "loop")
    /\ lk_keys' = Tail(lk_keys)
    /\ lk_pc' = [lk_pc EXCEPT !.loop = LoopAt("visit", lk_pc.loop.key)]
    /\ UNCHANGED <<lk_holder, lk_managers, lk_clock>>
    /\ LockFrame

\* line 54: time.sleep(10), and the next pass
LoopSleep ==
    /\ lk_pc.loop.at = "visit"
    /\ lk_keys = <<>>
    /\ lk_clock + PollSeconds <= MaxLockClock
    /\ lk_clock' = lk_clock + PollSeconds
    /\ lk_pc' = [lk_pc EXCEPT !.loop.at = "top"]
    /\ UNCHANGED <<lk_holder, lk_schedules, lk_managers, lk_keys, lk_last>>
    /\ LockFrame

NextLock ==
    \/ RegisterAcquire
    \/ RegisterSchedule
    \/ RegisterManager
    \/ ToggleEnabled
    \/ LoopAcquire
    \/ LoopSnapshot
    \/ LoopVisit
    \/ LoopExecute
    \/ LoopSleep

SpecLock == InitLock /\ [][NextLock]_vars

\* C23: every add and every toggle of the schedule map is done by the thread
\* that holds the service mutex, the loop's snapshot of keys is taken under
\* the mutex, and executions run without it.
C23_MutationsUnderMutex ==
    /\ lk_last.kind \in {"add", "toggle", "snapshot"} => lk_last.holder = lk_last.thread
    /\ lk_last.kind = "execute" => lk_last.holder # lk_last.thread

(***************************************************************************)
(* Webhook endpoint                                                        *)
(*                                                                         *)
(* HMAC-SHA-256 is taken as an ideal keyed hash: the digest of a key and a *)
(* message is the pair itself, so two digests are equal exactly when key   *)
(* and message are.  A header is None or the list header.split('=').       *)
(***************************************************************************)
\* hmac.new(key, msg, hashlib.sha256): a str message raises TypeError
hmac_new(key, msg) ==
    IF msg.type = "str" THEN [raised |-> "TypeError", hexdigest |-> <<>>]
    ELSE [raised |-> "none", hexdigest |-> <<key, msg.text>>]

\* hmac.compare_digest
compare_digest(a, b) == a = b

\* `not secret`: None and the empty string
NoSecret(secret) == secret = NoneV \/ secret = Some("")

\* WebhooksHandler.verify_signature: "True", "False" or the exception raised
verify_signature(secret, payload_body, signature_header) ==
    IF NoSecret(secret) THEN "True"
    ELSE IF signature_header = NoneV THEN "False"
    ELSE LET parts == signature_header.some
         IN  IF Len(parts) # 2 THEN "False"
             ELSE IF parts[1] # <<"sha256">> THEN "False"
             ELSE LET mac == hmac_new(secret.some, payload_body)
                  IN  IF mac.raised # "none" THEN mac.raised
                      ELSE IF compare_digest(mac.hexdigest, parts[2])
                           THEN "True" ELSE "False"

\* request.data.decode('utf-8')
Decode(data) == [type |-> "str", text |-> data]

\* handler_webhooks, lines 28-36: the status, and whether the handler went on
\* to create the platform, normalize the push, fetch and compare (200 stands
\* for whatever the rest of the handler answers); an exception that nothing
\* catches is answered 500
handler_webhooks(req) ==
    LET verdict == verify_signature(req.secret, Decode(req.data), req.signature)
    IN  IF verdict = "False" THEN [status |-> 401, processed |-> FALSE]
        ELSE IF verdict = "True" THEN [status |-> 200, processed |-> TRUE]
        ELSE [status |-> 500, processed |-> FALSE]

Secrets == {"s1", "s2"}

Bodies == {"b1", "b2"}

Digests == {<<k, b>> : k \in Secrets, b \in Bodies}

ShaNames == {<<"sha256">>, <<"sha1">>}

SignatureHeaders ==
    {NoneV}
        \cup {Some(<<n>>) : n \in ShaNames}
        \cup {Some(<<n, d>>) : n \in ShaNames, d \in Digests}
        \cup {Some(<<n, d, d>>) : n \in ShaNames, d \in Digests}

Requests ==
    [secret : {NoneV, Some(""), Some("s1")}, data : Bodies,
     signature : SignatureHeaders]

NoResponse == [status |-> 0, processed |-> FALSE]

InitSig ==
    /\ IdleSync
    /\ IdleRule
    /\ IdleSink
    /\ IdleRecon
    /\ IdleLife
    /\ IdleHeal
    /\ IdleHook
    /\ IdleOver
    /\ IdleAuto
    /\ IdleLock
    /\ IdleFlat
    /\ IdleFetch
    /\ wh_request \in Requests
    /\ wh_response = NoResponse

SigFrame ==
    /\ UNCHANGED syncVars
    /\ UNCHANGED ruleVars
    /\ UNCHANGED sinkVars
    /\ UNCHANGED reconVars
    /\ UNCHANGED lifeVars
    /\ UNCHANGED healVars
    /\ UNCHANGED hookVars
    /\ UNCHANGED overVars
    /\ UNCHANGED autoVars
    /\ UNCHANGED lockVars
    /\ UNCHANGED flatVars
    /\ UNCHANGED fetchVars

HandlerWebhooks ==
    /\ wh_response = NoResponse
    /\ wh_response' = handler_webhooks(wh_request)
    /\ UNCHANGED wh_request
    /\ SigFrame

NextSig == HandlerWebhooks

SpecSig == InitSig /\ [][NextSig]_vars

\* the header is sha256=<HMAC-SHA-256 of the raw body under the configured secret>
SignatureMatches(req) ==
    /\ req.secret # NoneV
    /\ req.signature = Some(<<<<"sha256">>, <<req.secret.some, req.data>>>>)

\* C21: a request whose signature header is missing or does not equal
\* sha256=<HMAC-SHA-256 of the raw body under the configured secret> is
\* answered 401 and nothing is processed for it, with or without a secret.
C21_BadSignatureRejected ==
    (wh_response # NoResponse /\ ~SignatureMatches(wh_request)) =>
        (wh_response.status = 401 /\ ~wh_response.processed)

(***************************************************************************)
(* Flatten                                                                 *)
(*                                                                         *)
(* A tree is a scalar, a dict (its items in insertion order) or a list.    *)
(* A key and a flat path are strings, written as sequences of characters,  *)
(* so that escaping and joining are computed character by character.       *)
(***************************************************************************)
Leaf(v) == [kind |-> "scalar", items |-> <<v>>]

DictTree(items) == [kind |-> "dict", items |-> items]

ListTree(items) == [kind |-> "list", items |-> items]

IsContainer(t) == t.kind \in {"dict", "list"}

\* str.replace(old, new) for a one-character old
RECURSIVE StrReplace(_, _, _)
StrReplace(str, old, new) ==
    IF str = <<>> THEN <<>>
    ELSE (IF Head(str) = old THEN new ELSE <<Head(str)>>)
            \o StrReplace(Tail(str), old, new)

\* _esc
_esc(str) == StrReplace(StrReplace(str, "~", <<"~", "0">>), "/", <<"~", "1">>)

env_key == <<"predev">>

\* _res with use_default_fallback = False
_res(v) ==
    IF v.kind = "dict" /\ \E i \in DOMAIN v.items : v.items[i].k = env_key
    THEN v.items[CHOOSE i \in DOMAIN v.items : v.items[i].k = env_key].v
    ELSE v

\* str(index) of a list position
StrOfIndex(i) == <<<<"0">>, <<"1">>, <<"2">>>>[i + 1]

\* list(src.items()) or list(enumerate(src)), keys already through str()
ItemsOf(src) ==
    IF src.kind = "dict" THEN src.items
    ELSE [i \in DOMAIN src.items |-> [k |-> StrOfIndex(i - 1), v |-> src.items[i]]]

\* separator + separator.join(new_path)
RECURSIVE JoinPath(_)
JoinPath(path) ==
    IF path = <<>> THEN <<>>
    ELSE <<"/">> \o Head(path) \o JoinPath(Tail(path))

\* the for loop of lines 141-160 over the reversed items, as_kv = True
RECURSIVE VisitItems(_, _, _)
VisitItems(items, path, acc) ==
    IF items = <<>> THEN acc
    ELSE LET item == Last(items)
             val == _res(item.v)
             new_path == Append(path, _esc(item.k))
         IN  VisitItems(Front(items), path,
                IF IsContainer(val)
                THEN [acc EXCEPT !.stack = Append(@, [src |-> val, path |-> new_path])]
                ELSE [acc EXCEPT !.result =
                        DictSet(@, JoinPath(new_path), val.items[1])])

\* the while loop of lines 139-160
RECURSIVE FlattenLoop(_)
FlattenLoop(acc) ==
    IF acc.stack = <<>> THEN acc.result
    ELSE LET top == Last(acc.stack)
         IN  FlattenLoop(VisitItems(ItemsOf(top.src), top.path,
                                    [acc EXCEPT !.stack = Front(@)]))

\* flatten_dfs(data, as_kv=True)
flatten_dfs(tree) ==
    LET data == _res(tree)
    IN  IF ~IsContainer(data) THEN <<[k |-> <<>>, v |-> data.items[1]]>>
        ELSE FlattenLoop([stack |-> <<[src |-> data, path |-> <<>>]>>,
                          result |-> <<>>])

Leaves == {Leaf("x"), Leaf("y")}

TreeKeys ==
    {<<"a">>, <<"b">>, <<"0">>, <<"a", "/", "b">>, <<"a", "~", "1", "b">>, env_key}

\* containers of scalars: dicts of one entry, the dict with keys a and b, lists
\* of up to two elements, and the empty dict and list
Containers1 ==
    {DictTree(<<>>), ListTree(<<>>)}
        \cup {DictTree(<<[k |-> key, v |-> l]>>) : key \in TreeKeys, l \in Leaves}
        \cup {DictTree(<<[k |-> <<"a">>, v |-> l1], [k |-> <<"b">>, v |-> l2]>>) :
                l1 \in Leaves, l2 \in Leaves}
        \cup {ListTree(<<l>>) : l \in Leaves}
        \cup {ListTree(<<l1, l2>>) : l1 \in Leaves, l2 \in Leaves}

Containers2 ==
    {DictTree(<<[k |-> key, v |-> c]>>) :
        key \in {<<"a">>, <<"0">>, env_key}, c \in Containers1}
        \cup {ListTree(<<c>>) : c \in Containers1}

Trees == Leaves \cup Containers1 \cup Containers2

NotFlattened == <<[k |-> <<"none">>, v |-> "none"]>>

InitFlat ==
    /\ IdleSync
    /\ IdleRule
    /\ IdleSink
    /\ IdleRecon
    /\ IdleLife
    /\ IdleHeal
    /\ IdleHook
    /\ IdleOver
    /\ IdleAuto
    /\ IdleLock
    /\ IdleSig
    /\ IdleFetch
    /\ fl_tree \in Trees
    /\ fl_flat = NotFlattened

FlatFrame ==
    /\ UNCHANGED syncVars
    /\ UNCHANGED ruleVars
    /\ UNCHANGED sinkVars
    /\ UNCHANGED reconVars
    /\ UNCHANGED lifeVars
    /\ UNCHANGED healVars
    /\ UNCHANGED hookVars
    /\ UNCHANGED overVars
    /\ UNCHANGED autoVars
    /\ UNCHANGED lockVars
    /\ UNCHANGED sigVars
    /\ UNCHANGED fetchVars

FlattenDfs ==
    /\ fl_flat = NotFlattened
    /\ fl_flat' = flatten_dfs(fl_tree)
    /\ UNCHANGED fl_tree
    /\ FlatFrame

NextFlat == FlattenDfs

SpecFlat == InitFlat /\ [][NextFlat]_vars

\* a mapping at any depth holds the env-overlay key
RECURSIVE HasOverlayKey(_)
HasOverlayKey(t) ==
    /\ IsContainer(t)
    /\ \E i \in DOMAIN t.items :
         IF t.kind = "dict"
         THEN t.items[i].k = env_key \/ HasOverlayKey(t.items[i].v)
         ELSE HasOverlayKey(t.items[i])

\* C22: for trees without env-overlay keys the flat map of flatten_dfs
\* determines the tree (what a round trip through any unflatten needs): no
\* other tree without env-overlay keys flattens to the same map.
C22_FlattenInjective ==
    (fl_flat # NotFlattened /\ ~HasOverlayKey(fl_tree)) =>
        \A other \in Trees :
            (~HasOverlayKey(other) /\ AsMapping(flatten_dfs(other)) = AsMapping(fl_flat))
                => other = fl_tree

(***************************************************************************)
(* GitSource.read                                                          *)
(*                                                                         *)
(* The calling thread submits two fetches per file to the pool, one call of *)
(* executor.submit after the other, and then appends the two futures to     *)
(* future_tasks; the pool's threads complete the calls in any order, also   *)
(* between these steps.  The caller collects the futures in submission      *)
(* order and leaves the with block when the pool has shut down.             *)
(* The platform is a GitPlatform, whose get_file_from_commit is declared   *)
(* `async def`, or a GitHubSource, whose get_file_from_commit is a plain   *)
(* function.                                                               *)
(***************************************************************************)
MaxFiles == 3

\* what platform.get_file_from_commit(repo, commit, path) returns when called
\* in a pool thread: the content, or for an `async def` a coroutine object
\* that nothing awaits
get_file_from_commit(platform, commit, path) ==
    [kind |-> IF platform = "GitPlatform" THEN "coroutine" ELSE "content",
     commit |-> commit, path |-> path]

Pending == [state |-> "pending"]

Done(value) == [state |-> "done", value |-> value]

\* the loop's locals before the first executor.submit of an item
NoFutures == [future_curr |-> NoneV, future_prev |-> NoneV]

\* lines 49-54: the dict appended to future_tasks
SubmitItem(item, futures) ==
    [future_curr |-> futures.future_curr,
     future_prev |-> futures.future_prev,
     metadata |-> item.match_context,
     file_path |-> item.file_path,
     curr_commit |-> item.last_commit_hash]

\* the item the submitting loop has in hand
ItemInHand == gs_input.files[Len(gs_tasks) + 1]

\* lines 57-66: one pass of the collecting loop
CollectTask(task) ==
    [current |-> task.future_curr.some.value,
     previous |-> IF task.future_prev = NoneV THEN NoneV
                  ELSE Some(task.future_prev.some.value),
     metadata |-> task.metadata,
     file_path |-> task.file_path]

IsPending(future) == future # NoneV /\ future.some.state = "pending"

FileItem(i) ==
    [file_path |-> <<"f", i>>, last_commit_hash |-> <<"c", i>>,
     match_context |-> <<"ctx", i>>]

FilesToProcess == {[i \in 1..n |-> FileItem(i)] : n \in 1..MaxFiles}

InitFetch ==
    /\ IdleSync
    /\ IdleRule
    /\ IdleSink
    /\ IdleRecon
    /\ IdleLife
    /\ IdleHeal
    /\ IdleHook
    /\ IdleOver
    /\ IdleAuto
    /\ IdleLock
    /\ IdleSig
    /\ IdleFlat
    /\ gs_input \in [platform : {"GitPlatform", "GitHubSource"},
                     files : FilesToProcess,
                     before_sha : {NoneV, Some(<<"c", 0>>)}]
    /\ gs_tasks = <<>>
    /\ gs_local = NoFutures
    /\ gs_results = <<>>
    /\ gs_pc = "submit"

FetchFrame ==
    /\ UNCHANGED syncVars
    /\ UNCHANGED ruleVars
    /\ UNCHANGED sinkVars
    /\ UNCHANGED reconVars
    /\ UNCHANGED lifeVars
    /\ UNCHANGED healVars
    /\ UNCHANGED hookVars
    /\ UNCHANGED overVars
    /\ UNCHANGED autoVars
    /\ UNCHANGED lockVars
    /\ UNCHANGED sigVars
    /\ UNCHANGED flatVars

\* lines 33-38: executor.submit of the call for the current content
SubmitCurr ==
    /\ gs_pc = "submit"
    /\ gs_local' = [future_curr |-> Some(Pending), future_prev |-> NoneV]
    /\ gs_pc' = "submit_prev"
    /\ UNCHANGED <<gs_input, gs_tasks, gs_results>>
    /\ FetchFrame

\* lines 41-46: with a before_sha, executor.submit of the call for the
\* previous content
SubmitPrev ==
    /\ gs_pc = "submit_prev"
    /\ gs_local' = [gs_local EXCEPT !.future_prev =
           IF gs_input.before_sha = NoneV THEN NoneV ELSE Some(Pending)]
    /\ gs_pc' = "append"
    /\ UNCHANGED <<gs_input, gs_tasks, gs_results>>
    /\ FetchFrame

\* lines 49-54: the two futures, as they are by now, go to future_tasks
AppendTask ==
    /\ gs_pc = "append"
    /\ gs_tasks' = Append(gs_tasks, SubmitItem(ItemInHand, gs_local))
    /\ gs_local' = NoFutures
    /\ gs_pc' = IF Len(gs_tasks) + 1 = Len(gs_input.files) THEN "collect" ELSE "submit"
    /\ UNCHANGED <<gs_input, gs_results>>
    /\ FetchFrame

\* a pool thread finishes the call for the current content of the item in
\* hand, before its futures are in future_tasks
CompleteCurrInHand ==
    /\ IsPending(gs_local.future_curr)
    /\ gs_local' = [gs_local EXCEPT !.future_curr =
           Some(Done(get_file_from_commit(gs_input.platform,
                                          ItemInHand.last_commit_hash,
                                          ItemInHand.file_path)))]
    /\ UNCHANGED <<gs_input, gs_tasks, gs_results, gs_pc>>
    /\ FetchFrame

\* the same for the call for the previous content
CompletePrevInHand ==
    /\ IsPending(gs_local.future_prev)
    /\ gs_local' = [gs_local EXCEPT !.future_prev =
           Some(Done(get_file_from_commit(gs_input.platform,
                                          gs_input.before_sha.some,
                                          ItemInHand.file_path)))]
    /\ UNCHANGED <<gs_input, gs_tasks, gs_results, gs_pc>>
    /\ FetchFrame

\* a pool thread finishes the call for the current content of file i
CompleteCurr(i) ==
    /\ IsPending(gs_tasks[i].future_curr)
    /\ gs_tasks' = [gs_tasks EXCEPT ![i].future_curr =
           Some(Done(get_file_from_commit(gs_input.platform,
                                          gs_tasks[i].curr_commit,
                                          gs_tasks[i].file_path)))]
    /\ UNCHANGED <<gs_input, gs_local, gs_results, gs_pc>>
    /\ FetchFrame

\* a pool thread finishes the call for the previous content of file i
CompletePrev(i) ==
    /\ IsPending(gs_tasks[i].future_prev)
    /\ gs_tasks' = [gs_tasks EXCEPT ![i].future_prev =
           Some(Done(get_file_from_commit(gs_input.platform,
                                          gs_input.before_sha.some,
                                          gs_tasks[i].file_path)))]
    /\ UNCHANGED <<gs_input, gs_local, gs_results, gs_pc>>
    /\ FetchFrame

\* lines 57-66: .result() blocks until the future is done
Collect ==
    /\ gs_pc = "collect"
    /\ Len(gs_results) < Len(gs_tasks)
    /\ LET task == gs_tasks[Len(gs_results) + 1]
       IN  /\ ~IsPending(task.future_curr)
           /\ ~IsPending(task.future_prev)
           /\ gs_results' = Append(gs_results, CollectTask(task))
    /\ UNCHANGED <<gs_input, gs_tasks, gs_local, gs_pc>>
    /\ FetchFrame

\* line 68: the with block is left (executor.shutdown(wait=True)) and read returns
Return ==
    /\ gs_pc = "collect"
    /\ Len(gs_results) = Len(gs_tasks)
    /\ \A i \in DOMAIN gs_tasks :
         ~IsPending(gs_tasks[i].future_curr) /\ ~IsPending(gs_tasks[i].future_prev)
    /\ gs_pc' = "returned"
    /\ UNCHANGED <<gs_input, gs_tasks, gs_local, gs_results>>
    /\ FetchFrame

NextFetch ==
    \/ SubmitCurr
    \/ SubmitPrev
    \/ AppendTask
    \/ CompleteCurrInHand
    \/ CompletePrevInHand
    \/ \E i \in DOMAIN gs_tasks : CompleteCurr(i)
    \/ \E i \in DOMAIN gs_tasks : CompletePrev(i)
    \/ Collect
    \/ Return

SpecFetch == InitFetch /\ [][NextFetch]_vars

\* the content of path at commit
ContentAt(commit, path) == [kind |-> "content", commit |-> commit, path |-> path]

\* C24: read returns only after every submitted fetch has completed, and the
\* i-th result carries the i-th input file's path and metadata with that
\* file's current and previous content, whatever the order of completions.
C24_ResultsInInputOrder ==
    gs_pc = "returned" =>
        /\ \A i \in DOMAIN gs_tasks :
             ~IsPending(gs_tasks[i].future_curr) /\ ~IsPending(gs_tasks[i].future_prev)
        /\ Len(gs_results) = Len(gs_input.files)
        /\ \A i \in DOMAIN gs_results :
             LET item == gs_input.files[i]
             IN  /\ gs_results[i].file_path = item.file_path
                 /\ gs_results[i].metadata = item.match_context
                 /\ gs_results[i].current
                        = ContentAt(item.last_commit_hash, item.file_path)
                 /\ gs_results[i].previous
                        = IF gs_input.before_sha = NoneV THEN NoneV
                          ELSE Some(ContentAt(gs_input.before_sha.some, item.file_path))

====
